---- MODULE Spec2Model ----
(***************************************************************************)
(* Function-calling runtime of gemma_function_sdk: the function registry,  *)
(* the call dispatcher (GemmaSDK.execute_function) and the ReAct loop      *)
(* (ReActExecutor.execute).                                                *)
(*                                                                         *)
(* Python values are tagged records.  Python strings are TLA+ strings.     *)
(***************************************************************************)
EXTENDS Integers, Sequences, FiniteSets, TLC

VARIABLES
    functions,      \* FunctionRegistry.functions: insertion-ordered dict, as a sequence of <<name, FunctionDefinition>>
    latest,         \* history: name -> the binding most recently registered under it and not removed since (None if none)
    dropped,        \* history: name -> TRUE when its latest registration supplied no implementation and took the place of one
    function_call,  \* the request of the execute_function call, when that was the last operation (else None)
    before,         \* the registry as the last operation found it
    outcome,        \* what that call did: returned a FunctionCallResult or raised (else None)
    conversation_history,  \* ReActExecutor.conversation_history
    pc,             \* "idle", or "awaiting": inside execute, waiting for the model's text
    user_query,     \* arguments and locals of the running (or last) execute call
    max_turns,
    turn,
    conversation,
    requests,       \* model requests issued by the running (or last) execute call
    dispatches,     \* execute_action calls made by it
    calls,          \* execute calls started so far
    last_turn,      \* its last turn: the new text, the parsed step, how the turn ended, the transcript and
                    \* the conversation as it left them (None before the first)
    returned,       \* how the last execute call ended: the string returned, or raised (None before the first)
    script,         \* history: the texts the model has added during the running (or last) execute call
    budget_given,   \* history: that call was given a max_turns argument
    parser_form,    \* the parts the text for parse_react_response is written from (None when there is none)
    parser_response,  \* that text
    parser_result,  \* what parse_react_response returned for it (None before the call)
    conv,           \* a Conversation: system_prompt and messages
    clock,          \* datetime.now(): the number of messages created so far
    conv_log,       \* history: the add operations on conv since its creation or its last clear
    restored,       \* the conversations rebuilt from conv, when that was the last operation (else None)
    conversations,  \* ConversationManager.conversations: insertion-ordered dict, as a sequence of <<id, reference>>
    heap,           \* the Conversation objects made by the manager; a reference is a position in it
    created,        \* history: id -> the reference create_conversation last returned for it, None once deleted
    mgr_result,     \* the last ConversationManager call: its arguments, the dict as it found it, what it returned
    norm_kind,      \* the converter entry point a document is meant for: "openapi", "rest" or "image"
    norm_doc,       \* that document, as json.load gives it (None when there is none)
    norm_result,    \* what the conversion of it returned or raised (None before the call)
    execution_history, \* GemmaRuntime.execution_history: the records of the completed execute calls
    rt_clock,       \* the second the wall clock of the runtime shows
    rt_result       \* the last GemmaRuntime call: its arguments, the history as it found it, what it returned or raised

sdk_vars == <<functions, latest, dropped, function_call, before, outcome>>
loop_vars == <<conversation_history, pc, user_query, max_turns, turn, conversation,
               requests, dispatches, calls, last_turn, returned, script, budget_given>>
parser_vars == <<parser_form, parser_response, parser_result>>
conv_vars == <<conv, clock, conv_log, restored>>
mgr_vars == <<conversations, heap, created, mgr_result>>
norm_vars == <<norm_kind, norm_doc, norm_result>>
rt_vars == <<execution_history, rt_clock, rt_result>>
vars == <<functions, latest, dropped, function_call, before, outcome,
          conversation_history, pc, user_query, max_turns, turn, conversation,
          requests, dispatches, calls, last_turn, returned, script, budget_given,
          parser_form, parser_response, parser_result,
          conv, clock, conv_log, restored,
          conversations, heap, created, mgr_result,
          norm_kind, norm_doc, norm_result,
          execution_history, rt_clock, rt_result>>

----------------------------------------------------------------------------
(* Python values *)

None == [t |-> "none"]
PyStr(s) == [t |-> "str", s |-> s]
PyInt(i) == [t |-> "int", i |-> i]
PyBool(b) == [t |-> "bool", b |-> b]
PyList(elems) == [t |-> "list", elems |-> elems]
PyTuple(elems) == [t |-> "tuple", elems |-> elems]
\* a dict is the sequence of its <<key, value>> items in insertion order
PyDict(items) == [t |-> "dict", items |-> items]

IsDict(v) == v.t = "dict"

\* bool(v) for the value kinds above
Truthy(v) ==
    CASE v.t = "none" -> FALSE
      [] v.t = "str"  -> v.s # ""
      [] v.t = "int"  -> v.i # 0
      [] v.t = "bool" -> v.b
      [] v.t = "list" -> Len(v.elems) > 0
      [] v.t = "tuple" -> Len(v.elems) > 0
      [] v.t = "dict" -> Len(v.items) > 0
      [] OTHER        -> TRUE

\* type(v).__name__
TypeName(v) ==
    CASE v.t = "none" -> "NoneType"
      [] v.t = "str"  -> "str"
      [] v.t = "int"  -> "int"
      [] v.t = "bool" -> "bool"
      [] v.t = "list" -> "list"
      [] v.t = "dict" -> "dict"
      [] OTHER        -> "object"

\* keys of a dict value, in order
DictKeys(d) == [i \in 1..Len(d.items) |-> d.items[i][1]]

\* every key of the dict is a str
StrKeyed(d) == \A i \in 1..Len(d.items) : d.items[i][1].t = "str"

\* the set of str keys of a str-keyed dict
KeyNames(d) == {d.items[i][1].s : i \in 1..Len(d.items)}

----------------------------------------------------------------------------
(* FunctionRegistry: self.functions is a dict name -> FunctionDefinition *)

\* index of key k in the ordered dict d (a sequence of <<key, value>>), 0 if absent
IndexOf(d, k) ==
    IF \E i \in 1..Len(d) : d[i][1] = k
    THEN CHOOSE i \in 1..Len(d) : d[i][1] = k /\ \A j \in 1..(i - 1) : d[j][1] # k
    ELSE 0

\* d[k] = v on a Python dict: replace in place when the key exists, else append
DictSet(d, k, v) ==
    IF IndexOf(d, k) # 0
    THEN [d EXCEPT ![IndexOf(d, k)] = <<k, v>>]
    ELSE Append(d, <<k, v>>)

\* d.get(k): the value, or None
DictGet(d, k) == IF IndexOf(d, k) # 0 THEN d[IndexOf(d, k)][2] ELSE None

\* del d[k] for a key that is present
DictDel(d, k) ==
    [i \in 1..(Len(d) - 1) |-> IF i < IndexOf(d, k) THEN d[i] ELSE d[i + 1]]

\* FunctionDefinition(name=..., description=..., parameters=..., supports_images=..., implementation=...)
FunctionDefinition(name, description, parameters, supports_images, implementation) ==
    [name |-> name, description |-> description, parameters |-> parameters,
     supports_images |-> supports_images, implementation |-> implementation]

\* FunctionRegistry.register
register(fns, function_def) == DictSet(fns, function_def.name, function_def)

\* function_dict.get("supports_images", False)
GetSupportsImages(function_dict) ==
    IF "supports_images" \in DOMAIN function_dict THEN function_dict.supports_images ELSE FALSE

\* register_from_dict that keeps the implementation of the binding it replaces
\* when none is supplied
register_from_dict_Merge(fns, function_dict, implementation) ==
    register(fns, FunctionDefinition(function_dict.name, function_dict.description,
                                     function_dict.parameters,
                                     GetSupportsImages(function_dict),
                                     IF implementation = None
                                        /\ IndexOf(fns, function_dict.name) # 0
                                     THEN DictGet(fns, function_dict.name).implementation
                                     ELSE implementation))

\* FunctionRegistry.register_from_dict
register_from_dict(fns, function_dict, implementation) ==
    register(fns, FunctionDefinition(function_dict.name, function_dict.description,
                                     function_dict.parameters,
                                     GetSupportsImages(function_dict), implementation))

\* register_multiple that leaves the implementation of a name in place when the
\* batch supplies none for it
RECURSIVE register_multiple_KeepBound(_, _, _)
register_multiple_KeepBound(fns, function_defs, implementations) ==
    IF function_defs = << >> THEN fns
    ELSE LET function_dict == Head(function_defs)
             implementation ==
                 IF Truthy(implementations)
                    /\ IndexOf(implementations.items, PyStr(function_dict.name)) # 0
                 THEN DictGet(implementations.items, PyStr(function_dict.name))
                 ELSE IF IndexOf(fns, function_dict.name) # 0
                 THEN DictGet(fns, function_dict.name).implementation
                 ELSE None
         IN register_multiple_KeepBound(register_from_dict(fns, function_dict, implementation),
                                        Tail(function_defs), implementations)

\* FunctionRegistry.register_multiple; implementations is None or a dict name -> callable
RECURSIVE register_multiple(_, _, _)
register_multiple(fns, function_defs, implementations) ==
    IF function_defs = << >> THEN fns
    ELSE LET function_dict == Head(function_defs)
             implementation ==
                 IF Truthy(implementations)
                    /\ IndexOf(implementations.items, PyStr(function_dict.name)) # 0
                 THEN DictGet(implementations.items, PyStr(function_dict.name))
                 ELSE None
         IN register_multiple(register_from_dict(fns, function_dict, implementation),
                              Tail(function_defs), implementations)

\* FunctionRegistry.get
get(fns, name) == DictGet(fns, name)

\* FunctionRegistry.get_all
get_all(fns) == [i \in 1..Len(fns) |-> fns[i][2]]

\* a remove that takes the first binding away when the name is not registered
remove_Unguarded(fns, name) == DictDel(fns, name)

\* FunctionRegistry.remove
remove(fns, name) == IF IndexOf(fns, name) # 0 THEN DictDel(fns, name) ELSE fns

\* FunctionRegistry.clear
clear(fns) == << >>

----------------------------------------------------------------------------
(* Host implementations (Python callables) *)

\* a callable: its __name__, the keyword names its signature declares, the ones
\* without a default (at most one here), whether it takes **kwargs, and what its
\* body does when run: return value, or raise an Exception e with str(e) = message
Callable(fn, params, required, varkw, raises, value, message) ==
    [t |-> "callable", fn |-> fn, params |-> params, required |-> required, varkw |-> varkw,
     raises |-> raises, value |-> value, message |-> message]

\* binding keyword arguments to the callable's signature: "" when they bind,
\* else the message of the TypeError Python raises before the body runs
BindError(impl, kwargs) ==
    LET unexpected == {k \in KeyNames(kwargs) : k \notin impl.params}
        missing    == {k \in impl.required : k \notin KeyNames(kwargs)}
    IN  IF (~impl.varkw) /\ unexpected # {}
        THEN impl.fn \o "() got an unexpected keyword argument '"
             \o (CHOOSE k \in unexpected :
                    \A i, j \in 1..Len(kwargs.items) :
                        (kwargs.items[i][1].s = k /\ kwargs.items[j][1].s \in unexpected) => i <= j)
             \o "'"
        ELSE IF missing # {}
        THEN impl.fn \o "() missing 1 required positional argument: '"
             \o (CHOOSE k \in missing : TRUE) \o "'"
        ELSE ""

\* the keyword arguments bind to the callable's signature
impl_accepts(impl, kwargs) == BindError(impl, kwargs) = ""

\* the result of a Python call: raised or not, str(e) of the exception, the
\* value returned, and the implementations whose body ran (callable, kwargs)
Returned(value, invoked) == [raised |-> FALSE, message |-> "", value |-> value, invoked |-> invoked]
Raised(message, invoked) == [raised |-> TRUE, message |-> message, value |-> None, invoked |-> invoked]

\* the text when the check for a missing implementation is left out and None is called
NoImplementationMessage_NoCheck(name) == "'NoneType' object is not callable"

\* f"No implementation provided for function '{self.name}'"
NoImplementationMessage(name) == "No implementation provided for function '" \o name \o "'"

\* __call__ that passes the positional arguments on and drops the keyword arguments
FunctionDefinitionCall_DropKwargs(function_def, parameters) ==
    IF ~IsDict(parameters)
    THEN Raised("argument after ** must be a mapping, not " \o TypeName(parameters), << >>)
    ELSE IF ~StrKeyed(parameters)
    THEN Raised("keywords must be strings", << >>)
    ELSE IF function_def.implementation = None
    THEN Raised(NoImplementationMessage(function_def.name), << >>)
    ELSE LET impl == function_def.implementation
         IN  IF BindError(impl, PyDict(<< >>)) # ""
             THEN Raised(BindError(impl, PyDict(<< >>)), << >>)
             ELSE IF impl.raises
             THEN Raised(impl.message, << <<impl, PyDict(<< >>)>> >>)
             ELSE Returned(impl.value, << <<impl, PyDict(<< >>)>> >>)

\* FunctionDefinition.__call__ as reached from function_def(**parameters)
FunctionDefinitionCall(function_def, parameters) ==
    IF ~IsDict(parameters)
    THEN Raised("argument after ** must be a mapping, not " \o TypeName(parameters), << >>)
    ELSE IF ~StrKeyed(parameters)
    THEN Raised("keywords must be strings", << >>)
    ELSE IF function_def.implementation = None
    THEN Raised(NoImplementationMessage(function_def.name), << >>)
    ELSE LET impl == function_def.implementation
         IN  IF BindError(impl, parameters) # ""
             THEN Raised(BindError(impl, parameters), << >>)
             ELSE IF impl.raises
             THEN Raised(impl.message, << <<impl, parameters>> >>)
             ELSE Returned(impl.value, << <<impl, parameters>> >>)

----------------------------------------------------------------------------
(* FunctionCallResult and GemmaSDK.execute_function *)

\* the pydantic (>= 2.0) validation of the field parameters: Dict[str, Any]
ValidParameters(parameters) == IsDict(parameters) /\ StrKeyed(parameters)

\* FunctionCallResult(function_name=..., parameters=..., result=..., error=...):
\* the model object; constructing it raises ValidationError unless ValidParameters
FunctionCallResult(function_name, parameters, result, error) ==
    [function_name |-> function_name, parameters |-> parameters, result |-> result, error |-> error]

\* FunctionCallResult.is_success
is_success(r) == r.error = None

\* what one execute_function call does: it returns a FunctionCallResult or raises
\* exc; invoked lists the implementation bodies it ran; functions is the registry after it
Outcome(raised, exc, result, invoked, fns) ==
    [raised |-> raised, exc |-> exc, result |-> result, invoked |-> invoked, functions |-> fns]

\* return FunctionCallResult(...) : the construction may itself raise
ReturnResult(function_name, parameters, result, error, invoked, fns) ==
    IF ValidParameters(parameters)
    THEN Outcome(FALSE, "", FunctionCallResult(function_name, parameters, result, error), invoked, fns)
    ELSE Outcome(TRUE, "ValidationError", None, invoked, fns)

\* the message without the quotes around the name
NotFoundMessage_NoQuotes(function_name) == "Function " \o function_name \o " not found"

\* f"Function '{function_name}' not found"
NotFoundMessage(function_name) == "Function '" \o function_name \o "' not found"

\* the except branch also stores the text of the failure as the result
TryCall_ErrorAsResult(function_def, function_name, parameters, fns) ==
    LET call == FunctionDefinitionCall(function_def, parameters)
    IN  IF call.raised
        THEN ReturnResult(function_name, parameters, PyStr(call.message), PyStr(call.message),
                          call.invoked, fns)
        ELSE ReturnResult(function_name, parameters, call.value, None, call.invoked, fns)

\* no except branch: the failure of the implementation leaves execute_function
TryCall_Propagate(function_def, function_name, parameters, fns) ==
    LET call == FunctionDefinitionCall(function_def, parameters)
    IN  IF call.raised
        THEN Outcome(TRUE, "Exception", None, call.invoked, fns)
        ELSE ReturnResult(function_name, parameters, call.value, None, call.invoked, fns)

\* a dispatch that takes the binding of a failed implementation out of the registry
TryCall_Unbind(function_def, function_name, parameters, fns) ==
    LET call == FunctionDefinitionCall(function_def, parameters)
    IN  IF call.raised
        THEN ReturnResult(function_name, parameters, None, PyStr(call.message), call.invoked,
                          remove(fns, function_name))
        ELSE ReturnResult(function_name, parameters, call.value, None, call.invoked, fns)

\* the try/except of execute_function around function_def(**parameters)
TryCall(function_def, function_name, parameters, fns) ==
    LET call == FunctionDefinitionCall(function_def, parameters)
    IN  IF call.raised
        THEN ReturnResult(function_name, parameters, None, PyStr(call.message), call.invoked, fns)
        ELSE ReturnResult(function_name, parameters, call.value, None, call.invoked, fns)

\* GemmaSDK.execute_function
execute_function(fns, fc) ==
    IF "name" \notin DOMAIN fc \/ "parameters" \notin DOMAIN fc
    THEN Outcome(TRUE, "KeyError", None, << >>, fns)
    ELSE LET function_name == fc.name
             parameters    == fc.parameters
             function_def  == get(fns, function_name)
         IN  IF function_def = None
             THEN ReturnResult(function_name, parameters, None,
                               PyStr(NotFoundMessage(function_name)), << >>, fns)
             ELSE TryCall(function_def, function_name, parameters, fns)

----------------------------------------------------------------------------
(* Python str operations.  The grave accent (U+0060) that delimits the tool   *)
(* name and the payload in the Action line cannot be written inside a string  *)
(* of this language; the character "^" stands for it in every text below and  *)
(* occurs in no text with another meaning.                                    *)

BT == "^"

Min(S) == CHOOSE x \in S : \A y \in S : x <= y
Max(S) == CHOOSE x \in S : \A y \in S : x >= y

\* s[i-1:j] in Python terms: the characters i..j (1-based, inclusive)
Slice(s, i, j) == SubSeq(s, i, j)

\* the character at (1-based) position i; "" outside the string
CharAt(s, i) == IF i >= 1 /\ i <= Len(s) THEN SubSeq(s, i, i) ELSE ""

\* pat occurs in s at position i
StartsAt(s, i, pat) ==
    /\ i >= 1
    /\ i + Len(pat) - 1 <= Len(s)
    /\ SubSeq(s, i, i + Len(pat) - 1) = pat

\* position of the first occurrence of pat in s at or after from; 0 if none
Find(s, pat, from) ==
    LET hits == {i \in from..(Len(s) - Len(pat) + 1) : StartsAt(s, i, pat)}
    IN  IF hits = {} THEN 0 ELSE Min(hits)

\* str.isspace for one character
IsSpace(c) == c \in {" ", "\t", "\n", "\r", "\f"}

\* str.strip()
Strip(s) ==
    LET keep == {i \in 1..Len(s) : ~IsSpace(CharAt(s, i))}
    IN  IF keep = {} THEN "" ELSE SubSeq(s, Min(keep), Max(keep))

\* s.split(sep) for a one-character sep: the pieces, empty ones included
RECURSIVE Split(_, _)
Split(s, sep) ==
    LET i == Find(s, sep, 1)
    IN  IF i = 0 THEN << s >>
        ELSE << SubSeq(s, 1, i - 1) >> \o Split(SubSeq(s, i + 1, Len(s)), sep)

\* a split at the last sep instead of the first
SplitOnce_AtLast(s, sep) ==
    LET i == Max({k \in 1..Len(s) : StartsAt(s, k, sep)})
    IN  << SubSeq(s, 1, i - 1), SubSeq(s, i + Len(sep), Len(s)) >>

\* s.split(sep, 1) for an s that contains sep: <<before, after>>
SplitOnce(s, sep) ==
    LET i == Find(s, sep, 1)
    IN  << SubSeq(s, 1, i - 1), SubSeq(s, i + Len(sep), Len(s)) >>

\* sep.join(parts)
RECURSIVE Join(_, _)
Join(parts, sep) ==
    IF Len(parts) = 0 THEN ""
    ELSE IF Len(parts) = 1 THEN parts[1]
    ELSE parts[1] \o sep \o Join(Tail(parts), sep)

\* no line break among the characters i..j of s (what "." of a pattern
\* without DOTALL can run over)
NoNewline(s, i, j) == \A k \in i..j : CharAt(s, k) # "\n"

\* where "$" of a pattern without MULTILINE matches at or after position from:
\* before a line break that ends the text, else at the end of the text.
\* The value is the position of the first character after the group.
DollarAt(s, from) ==
    IF Len(s) >= from /\ CharAt(s, Len(s)) = "\n" THEN Len(s) ELSE Len(s) + 1

Digits == <<"0", "1", "2", "3", "4", "5", "6", "7", "8", "9">>

IsDigit(c) == \E d \in 1..10 : Digits[d] = c

DigitValue(c) == (CHOOSE d \in 1..10 : Digits[d] = c) - 1

\* str(n) for an int n
RECURSIVE IntToStr(_)
IntToStr(n) ==
    IF n < 0 THEN "-" \o IntToStr(0 - n)
    ELSE IF n < 10 THEN Digits[n + 1]
    ELSE IntToStr(n \div 10) \o Digits[(n % 10) + 1]

\* int(s) for a non-empty string of digits
RECURSIVE StrToInt(_)
StrToInt(s) ==
    IF Len(s) = 1 THEN DigitValue(s)
    ELSE 10 * StrToInt(SubSeq(s, 1, Len(s) - 1)) + DigitValue(CharAt(s, Len(s)))

----------------------------------------------------------------------------
(* json.loads and json.dumps, for texts made of objects, arrays, strings      *)
(* without escapes, integers, true, false and null                           *)

\* the result of scanning one JSON value: ok, the value, the position after it
Scanned(value, next) == [ok |-> TRUE, value |-> value, next |-> next]
ScanFail == [ok |-> FALSE, value |-> None, next |-> 0]

\* first position at or after i that holds no JSON whitespace
SkipWs(s, i) ==
    LET rest == {k \in i..Len(s) : CharAt(s, k) \notin {" ", "\t", "\n", "\r"}}
    IN  IF rest = {} THEN Len(s) + 1 ELSE Min(rest)

\* a string literal whose opening quote is at i; a control character or a
\* backslash inside it ends the scan with a failure
ScanString(s, i) ==
    LET k == Find(s, "\"", i + 1)
    IN  IF k = 0 THEN ScanFail
        ELSE IF \E m \in (i + 1)..(k - 1) : CharAt(s, m) \in {"\n", "\t", "\r", "\f", "\\"}
        THEN ScanFail
        ELSE Scanned(PyStr(SubSeq(s, i + 1, k - 1)), k + 1)

\* an integer literal at i: -?(0|[1-9][0-9]*)
ScanNumber(s, i) ==
    LET neg   == CharAt(s, i) = "-"
        first == IF neg THEN i + 1 ELSE i
        stop  == {k \in first..(Len(s) + 1) : k = Len(s) + 1 \/ ~IsDigit(CharAt(s, k))}
        last  == IF CharAt(s, first) = "0" THEN first ELSE Min(stop) - 1
    IN  IF first > Len(s) \/ ~IsDigit(CharAt(s, first)) THEN ScanFail
        ELSE Scanned(PyInt((IF neg THEN -1 ELSE 1) * StrToInt(SubSeq(s, first, last))), last + 1)

RECURSIVE ScanValue(_, _), ScanMembers(_, _, _), ScanElements(_, _, _)

\* the value that starts at position i
ScanValue(s, i) ==
    IF i > Len(s) THEN ScanFail
    ELSE LET c == CharAt(s, i)
         IN  IF c = "{"
             THEN IF CharAt(s, SkipWs(s, i + 1)) = "}"
                  THEN Scanned(PyDict(<< >>), SkipWs(s, i + 1) + 1)
                  ELSE ScanMembers(s, SkipWs(s, i + 1), << >>)
             ELSE IF c = "["
             THEN IF CharAt(s, SkipWs(s, i + 1)) = "]"
                  THEN Scanned(PyList(<< >>), SkipWs(s, i + 1) + 1)
                  ELSE ScanElements(s, SkipWs(s, i + 1), << >>)
             ELSE IF c = "\"" THEN ScanString(s, i)
             ELSE IF StartsAt(s, i, "null") THEN Scanned(None, i + 4)
             ELSE IF StartsAt(s, i, "true") THEN Scanned(PyBool(TRUE), i + 4)
             ELSE IF StartsAt(s, i, "false") THEN Scanned(PyBool(FALSE), i + 5)
             ELSE IF c = "-" \/ IsDigit(c) THEN ScanNumber(s, i)
             ELSE ScanFail

\* "key": value pairs of an object from position i on; a repeated key keeps
\* its place and takes the later value
ScanMembers(s, i, items) ==
    IF i > Len(s) \/ CharAt(s, i) # "\"" THEN ScanFail
    ELSE LET key == ScanString(s, i)
         IN  IF ~key.ok THEN ScanFail
             ELSE LET colon == SkipWs(s, key.next)
                  IN  IF CharAt(s, colon) # ":" THEN ScanFail
                      ELSE LET val == ScanValue(s, SkipWs(s, colon + 1))
                           IN  IF ~val.ok THEN ScanFail
                               ELSE LET after == SkipWs(s, val.next)
                                        more  == DictSet(items, key.value, val.value)
                                    IN  IF CharAt(s, after) = "}"
                                        THEN Scanned(PyDict(more), after + 1)
                                        ELSE IF CharAt(s, after) = ","
                                        THEN ScanMembers(s, SkipWs(s, after + 1), more)
                                        ELSE ScanFail

\* the elements of an array from position i on
ScanElements(s, i, elems) ==
    LET val == ScanValue(s, i)
    IN  IF ~val.ok THEN ScanFail
        ELSE LET after == SkipWs(s, val.next)
                 more  == Append(elems, val.value)
             IN  IF CharAt(s, after) = "]"
                 THEN Scanned(PyList(more), after + 1)
                 ELSE IF CharAt(s, after) = ","
                 THEN ScanElements(s, SkipWs(s, after + 1), more)
                 ELSE ScanFail

\* json.loads(s): ok = FALSE stands for JSONDecodeError
json_loads(s) ==
    LET val == ScanValue(s, SkipWs(s, 1))
    IN  IF val.ok /\ SkipWs(s, val.next) = Len(s) + 1 THEN val ELSE ScanFail

\* n spaces
RECURSIVE Spaces(_)
Spaces(n) == IF n <= 0 THEN "" ELSE " " \o Spaces(n - 1)

RECURSIVE json_dumps(_), json_dumps_indent(_, _)

\* json.dumps(v)
json_dumps(v) ==
    CASE v.t = "none" -> "null"
      [] v.t = "bool" -> (IF v.b THEN "true" ELSE "false")
      [] v.t = "int"  -> IntToStr(v.i)
      [] v.t = "str"  -> "\"" \o v.s \o "\""
      [] v.t \in {"list", "tuple"} ->
            "[" \o Join([k \in 1..Len(v.elems) |-> json_dumps(v.elems[k])], ", ") \o "]"
      [] v.t = "dict" ->
            "{" \o Join([k \in 1..Len(v.items) |->
                            "\"" \o v.items[k][1].s \o "\": " \o json_dumps(v.items[k][2])], ", ")
                \o "}"

\* json.dumps(v, indent=2) at nesting depth level
json_dumps_indent(v, level) ==
    CASE v.t \in {"list", "tuple"} /\ Len(v.elems) > 0 ->
            "[\n"
            \o Join([k \in 1..Len(v.elems) |->
                        Spaces(2 * (level + 1)) \o json_dumps_indent(v.elems[k], level + 1)], ",\n")
            \o "\n" \o Spaces(2 * level) \o "]"
      [] v.t = "dict" /\ Len(v.items) > 0 ->
            "{\n"
            \o Join([k \in 1..Len(v.items) |->
                        Spaces(2 * (level + 1)) \o "\"" \o v.items[k][1].s \o "\": "
                        \o json_dumps_indent(v.items[k][2], level + 1)], ",\n")
            \o "\n" \o Spaces(2 * level) \o "}"
      [] OTHER -> json_dumps(v)

\* str(v) for None, bool and int values
PyToStr(v) ==
    CASE v.t = "none" -> "None"
      [] v.t = "bool" -> (IF v.b THEN "True" ELSE "False")
      [] v.t = "int"  -> IntToStr(v.i)
      [] v.t = "str"  -> v.s

\* repr(v), for strings without quotes or escapes
RECURSIVE PyRepr(_)
PyRepr(v) ==
    CASE v.t = "str"  -> "'" \o v.s \o "'"
      [] v.t = "list" ->
            "[" \o Join([k \in 1..Len(v.elems) |-> PyRepr(v.elems[k])], ", ") \o "]"
      [] v.t = "tuple" ->
            "(" \o Join([k \in 1..Len(v.elems) |-> PyRepr(v.elems[k])], ", ")
                \o (IF Len(v.elems) = 1 THEN "," ELSE "") \o ")"
      [] v.t = "dict" ->
            "{" \o Join([k \in 1..Len(v.items) |->
                            PyRepr(v.items[k][1]) \o ": " \o PyRepr(v.items[k][2])], ", ")
                \o "}"
      [] OTHER -> PyToStr(v)

\* f"{v}": str(v)
PyFormat(v) == IF v.t = "str" THEN v.s ELSE PyRepr(v)

----------------------------------------------------------------------------
(* ReActExecutor: prompt, parser, action execution *)

\* FunctionDefinition.to_dict
to_dict(function_def) ==
    IF function_def.supports_images
    THEN [name |-> function_def.name, description |-> function_def.description,
          parameters |-> function_def.parameters, supports_images |-> TRUE]
    ELSE [name |-> function_def.name, description |-> function_def.description,
          parameters |-> function_def.parameters]

\* FunctionRegistry.get_all_dicts (GemmaSDK.get_function_definitions)
get_all_dicts(fns) == [i \in 1..Len(fns) |-> to_dict(fns[i][2])]

\* param_info.get("type", "string")
ParamType(param_info) == IF "type" \in DOMAIN param_info THEN param_info.type ELSE "string"

\* the line of one tool in the prompt
ToolLine(func) ==
    LET props  == func.parameters.properties
        params == [k \in 1..Len(props) |-> props[k][1] \o ": " \o ParamType(props[k][2])]
    IN  "* " \o BT \o func.name \o "(" \o Join(params, ", ") \o ")" \o BT \o ": "
        \o func.description \o "\n"

RECURSIVE Concat(_)
Concat(parts) == IF Len(parts) = 0 THEN "" ELSE Head(parts) \o Concat(Tail(parts))

\* the system_prompt f-string of create_react_prompt
SystemPrompt(tools_description) ==
    "You are an AI assistant that helps users by using tools.\n"
    \o "You have access to the following tools:\n"
    \o "\n"
    \o tools_description \o "\n"
    \o "\n"
    \o "Use the following format:\n"
    \o "\n"
    \o "Thought: I need to think about what to do\n"
    \o "Action: I should use the tool " \o BT \o "tool_name" \o BT \o " with input " \o BT
    \o "{\"param1\": \"value1\", \"param2\": \"value2\"}" \o BT \o "\n"
    \o "Observation: The result of the tool\n"
    \o "... (repeat Thought/Action/Observation as needed)\n"
    \o "Final Answer: The final response to the user's query\n"
    \o "\n"
    \o "Begin!\n"

\* a prompt with the user query ahead of the transcript
create_react_prompt_QueryFirst(fns, history, query) ==
    LET function_defs     == get_all_dicts(fns)
        tools_description == Concat([k \in 1..Len(function_defs) |-> ToolLine(function_defs[k])])
    IN  SystemPrompt(tools_description)
        \o "\nUser query: " \o query
        \o Concat([k \in 1..Len(history) |-> "\n" \o history[k]])
        \o "\nThought:"

\* ReActExecutor.create_react_prompt
create_react_prompt(fns, history, query) ==
    LET function_defs     == get_all_dicts(fns)
        tools_description == Concat([k \in 1..Len(function_defs) |-> ToolLine(function_defs[k])])
    IN  SystemPrompt(tools_description)
        \o Concat([k \in 1..Len(history) |-> "\n" \o history[k]])
        \o "\nUser query: " \o query \o "\nThought:"

\* re.search(r"Thought:(.*?)(?:Action:|Final Answer:|$)", response, re.DOTALL):
\* group 1, or None when there is no match
ThoughtGroup(response) ==
    LET i == Find(response, "Thought:", 1)
    IN  IF i = 0 THEN None
        ELSE LET start == i + 8
                 a     == Find(response, "Action:", start)
                 f     == Find(response, "Final Answer:", start)
                 stops == {DollarAt(response, start)}
                          \cup (IF a = 0 THEN {} ELSE {a}) \cup (IF f = 0 THEN {} ELSE {f})
             IN  PyStr(SubSeq(response, start, Min(stops) - 1))

ActionPrefix == "Action: I should use the tool " \o BT
ActionMiddle == BT \o " with input " \o BT

\* re.search(r"Action: I should use the tool (.*?) with input (.*?)", response)
\* with the accents around both groups: the leftmost start, then the shortest
\* group 1, then the shortest group 2; no group runs over a line break.
\* The two groups, or None when there is no match
ActionGroups(response) ==
    LET starts == {i \in 1..Len(response) : StartsAt(response, i, ActionPrefix)}
        mids   == {m \in 1..Len(response) : StartsAt(response, m, ActionMiddle)}
        close(m) == Find(response, BT, m + Len(ActionMiddle))
        ok(i, m) == /\ m >= i + Len(ActionPrefix)
                    /\ NoNewline(response, i + Len(ActionPrefix), m - 1)
                    /\ close(m) # 0
                    /\ NoNewline(response, m + Len(ActionMiddle), close(m) - 1)
        good   == {i \in starts : \E m \in mids : ok(i, m)}
    IN  IF good = {} THEN None
        ELSE LET i == Min(good)
                 m == Min({x \in mids : ok(i, x)})
             IN  [t  |-> "match",
                  g1 |-> SubSeq(response, i + Len(ActionPrefix), m - 1),
                  g2 |-> SubSeq(response, m + Len(ActionMiddle), close(m) - 1)]

\* re.search(r"Final Answer:(.*?)$", response, re.DOTALL): group 1, or None
\* a parser that takes a text without the marker as the answer
FinalAnswerGroup_Lenient(response) ==
    LET i == Find(response, "Final Answer:", 1)
    IN  IF i = 0 THEN PyStr(response)
        ELSE PyStr(SubSeq(response, i + 13, DollarAt(response, i + 13) - 1))

FinalAnswerGroup(response) ==
    LET i == Find(response, "Final Answer:", 1)
    IN  IF i = 0 THEN None
        ELSE PyStr(SubSeq(response, i + 13, DollarAt(response, i + 13) - 1))

\* the key-value fallback for an action input that is not JSON
RECURSIVE KeyValuePairs(_, _)
KeyValuePairs(pairs, action_input) ==
    IF Len(pairs) = 0 THEN action_input
    ELSE LET pair == Head(pairs)
         IN  IF Find(pair, ":", 1) # 0
             THEN KeyValuePairs(Tail(pairs),
                                DictSet(action_input, PyStr(Strip(SplitOnce(pair, ":")[1])),
                                        PyStr(Strip(SplitOnce(pair, ":")[2]))))
             ELSE KeyValuePairs(Tail(pairs), action_input)

\* the parsing of the action input string
ParseActionInput(action_input_str) ==
    IF json_loads(action_input_str).ok
    THEN json_loads(action_input_str).value
    ELSE PyDict(KeyValuePairs(Split(action_input_str, ","), << >>))

\* a parser that drops the action of a text that has a final answer
parse_react_response_Exclusive(response) ==
    LET thought_match      == ThoughtGroup(response)
        action_match       == ActionGroups(response)
        final_answer_match == FinalAnswerGroup(response)
        keep_action        == action_match # None /\ final_answer_match = None
    IN  [thought      |-> IF thought_match # None THEN PyStr(Strip(thought_match.s)) ELSE None,
         action       |-> IF keep_action THEN PyStr(Strip(action_match.g1)) ELSE None,
         action_input |-> IF keep_action
                          THEN ParseActionInput(Strip(action_match.g2)) ELSE None,
         final_answer |-> IF final_answer_match # None
                          THEN PyStr(Strip(final_answer_match.s)) ELSE None]

\* ReActExecutor.parse_react_response
parse_react_response(response) ==
    LET thought_match      == ThoughtGroup(response)
        action_match       == ActionGroups(response)
        final_answer_match == FinalAnswerGroup(response)
    IN  [thought      |-> IF thought_match # None THEN PyStr(Strip(thought_match.s)) ELSE None,
         action       |-> IF action_match # None THEN PyStr(Strip(action_match.g1)) ELSE None,
         action_input |-> IF action_match # None
                          THEN ParseActionInput(Strip(action_match.g2)) ELSE None,
         final_answer |-> IF final_answer_match # None
                          THEN PyStr(Strip(final_answer_match.s)) ELSE None]

\* the stringification of a successful result in execute_action
ResultText(result) ==
    IF result.t = "str" THEN result.s
    ELSE IF result.t \in {"dict", "list"} THEN json_dumps_indent(result, 0)
    ELSE PyToStr(result)

\* ReActExecutor.execute_action: the dispatch and, unless it raised, the text returned
execute_action(fns, action, action_input) ==
    LET out == execute_function(fns, [name |-> action, parameters |-> action_input])
    IN  [out  |-> out,
         text |-> IF out.raised THEN ""
                  ELSE IF Truthy(out.result.error) THEN "Error: " \o out.result.error.s
                  ELSE ResultText(out.result.result)]

\* a slice that takes the whole response: the prompt is parsed again
NewContent_Whole(response, prompt) == response

\* new_content = response[len(conversation):]
NewContent(response, prompt) ==
    IF Len(prompt) >= Len(response) THEN ""
    ELSE SubSeq(response, Len(prompt) + 1, Len(response))

\* the string execute returns when it ends without a final answer
Sentinel == "No final answer was reached after the maximum number of turns."

\* a loop body without the break: a turn that names no action goes on to the
\* next model request
LoopBody_NoBreak(fns, history, response, new_content, parsed) ==
    LET h1 == Append(history, "Thought: " \o PyToStr(parsed.thought))
    IN  IF Truthy(parsed.final_answer)
        THEN [kind |-> "final", new_content |-> new_content, parsed |-> parsed, act |-> None,
              history |-> Append(h1, "Final Answer: " \o parsed.final_answer.s),
              conversation |-> response]
        ELSE IF Truthy(parsed.action) /\ Truthy(parsed.action_input)
        THEN LET h2  == Append(h1, "Action: I should use the tool " \o BT \o parsed.action.s \o BT
                                   \o " with input " \o BT \o json_dumps(parsed.action_input) \o BT)
                 act == execute_action(fns, parsed.action.s, parsed.action_input)
             IN  IF act.out.raised
                 THEN [kind |-> "raise", new_content |-> new_content, parsed |-> parsed,
                       act |-> act, history |-> h2, conversation |-> response]
                 ELSE [kind |-> "continue", new_content |-> new_content, parsed |-> parsed,
                       act |-> act,
                       history |-> Append(h2, "Observation: " \o act.text),
                       conversation |-> response \o "\nObservation: " \o act.text \o "\nThought:"]
        ELSE [kind |-> "continue", new_content |-> new_content, parsed |-> parsed, act |-> None,
              history |-> h1, conversation |-> response]

\* how one pass through the body of the for loop of execute ends, given the
\* response of the model, its new content and the parsed step:
\*   "final"    return parsed["final_answer"]
\*   "break"    no action: leave the loop
\*   "continue" action executed, observation appended: next turn
\*   "raise"    execute_action raised: the exception leaves execute
LoopBody(fns, history, response, new_content, parsed) ==
    LET h1 == Append(history, "Thought: " \o PyToStr(parsed.thought))
    IN  IF Truthy(parsed.final_answer)
        THEN [kind |-> "final", new_content |-> new_content, parsed |-> parsed, act |-> None,
              history |-> Append(h1, "Final Answer: " \o parsed.final_answer.s),
              conversation |-> response]
        ELSE IF Truthy(parsed.action) /\ Truthy(parsed.action_input)
        THEN LET h2  == Append(h1, "Action: I should use the tool " \o BT \o parsed.action.s \o BT
                                   \o " with input " \o BT \o json_dumps(parsed.action_input) \o BT)
                 act == execute_action(fns, parsed.action.s, parsed.action_input)
             IN  IF act.out.raised
                 THEN [kind |-> "raise", new_content |-> new_content, parsed |-> parsed,
                       act |-> act, history |-> h2, conversation |-> response]
                 ELSE [kind |-> "continue", new_content |-> new_content, parsed |-> parsed,
                       act |-> act,
                       history |-> Append(h2, "Observation: " \o act.text),
                       conversation |-> response \o "\nObservation: " \o act.text \o "\nThought:"]
        ELSE [kind |-> "break", new_content |-> new_content, parsed |-> parsed, act |-> None,
              history |-> h1, conversation |-> response]

\* how an execute call ended
ReturnedString(value) == [raised |-> FALSE, value |-> value, exc |-> ""]
RaisedFrom(exc) == [raised |-> TRUE, value |-> "", exc |-> exc]

----------------------------------------------------------------------------
(* Inputs *)

\* longest list handed to register_multiple
MaxBatch == 2

Names == {"get_weather", "get_time"}

\* a name no action ever registers
Unregistered == "foo"

Schema(properties, required) == [type |-> "object", properties |-> properties, required |-> required]

WeatherV1 == [name |-> "get_weather", description |-> "Get weather",
              parameters |-> Schema(<< <<"location", [type |-> "string"]>> >>, <<"location">>)]
WeatherV2 == [name |-> "get_weather", description |-> "Get the forecast",
              parameters |-> Schema(<< <<"location", [type |-> "string"]>>,
                                       <<"days", [description |-> "Days ahead"]>> >>, <<"location">>),
              supports_images |-> TRUE]
TimeV1    == [name |-> "get_time", description |-> "Get time",
              parameters |-> Schema(<< >>, << >>)]

FunctionDicts == {WeatherV1, WeatherV2, TimeV1}

\* def get_weather(location): return "Sunny"
WeatherImpl == Callable("get_weather", {"location"}, {"location"}, FALSE, FALSE, PyStr("Sunny"), "")
\* def lookup(location="here"): return {"temp": 21}
LookupImpl == Callable("lookup", {"location"}, {}, FALSE, FALSE,
                       PyDict(<< <<PyStr("temp"), PyInt(21)>> >>), "")
\* def log_event(**kwargs): return None
LogImpl == Callable("log_event", {}, {}, TRUE, FALSE, None, "")
\* def fail(**kwargs): raise RuntimeError("boom")
FailImpl == Callable("fail", {}, {}, TRUE, TRUE, None, "boom")
\* def fail_silent(**kwargs): raise RuntimeError()
FailSilentImpl == Callable("fail_silent", {}, {}, TRUE, TRUE, None, "")
\* def clock(zone="UTC"): return a text that itself carries the markers of a step
ClockImpl == Callable("clock", {"zone"}, {}, FALSE, FALSE,
                      PyStr("12:00\nAction: I should use the tool ^get_weather^ with input "
                            \o "^{\"location\": \"Oslo\"}^\nFinal Answer: noon"), "")

Impls == {WeatherImpl, LookupImpl, LogImpl, FailImpl, FailSilentImpl}

\* FunctionDefinition objects a caller can hand to register
Definitions ==
    {FunctionDefinition(d.name, d.description, d.parameters, GetSupportsImages(d), impl) :
        d \in FunctionDicts, impl \in Impls \cup {None}}

\* the implementations argument of register_multiple
ImplementationMaps ==
    {None,
     PyDict(<< >>),
     PyDict(<< <<PyStr("get_weather"), WeatherImpl>> >>),
     PyDict(<< <<PyStr("get_time"), FailImpl>> >>),
     PyDict(<< <<PyStr("get_weather"), LookupImpl>>, <<PyStr("get_time"), LogImpl>> >>)}

Batches == UNION {[1..n -> FunctionDicts] : n \in 0..MaxBatch}

\* argument maps (str-keyed dicts)
ArgumentMaps ==
    {PyDict(<< >>),
     PyDict(<< <<PyStr("location"), PyStr("Paris")>> >>),
     PyDict(<< <<PyStr("bogus"), PyInt(1)>> >>)}

\* values of function_call["parameters"] that are not str-keyed dicts
MalformedParameters ==
    {None, PyList(<< PyInt(1) >>), PyDict(<< <<PyInt(1), PyStr("x")>> >>)}

CallNames == Names \cup {Unregistered}

\* the dicts handed to execute_function: with both keys, or with "parameters" or "name" missing
FunctionCalls ==
    {[name |-> n, parameters |-> p] : n \in CallNames, p \in ArgumentMaps \cup MalformedParameters}
    \cup {[name |-> n] : n \in CallNames}
    \cup {[parameters |-> p] : p \in ArgumentMaps}

WellFormed(fc) ==
    /\ DOMAIN fc = {"name", "parameters"}
    /\ ValidParameters(fc.parameters)

----------------------------------------------------------------------------
(* Conversation: messages and serialization *)

\* Message(role=..., content=..., function_call=..., function_result=..., timestamp=...)
Message(role, content, fc, function_result, timestamp) ==
    [role |-> role, content |-> content, function_call |-> fc,
     function_result |-> function_result, timestamp |-> timestamp]

\* datetime.now().isoformat() at clock reading now
Timestamp(now) == "2026-01-01T00:00:0" \o IntToStr(now)

\* the system prompt of a conversation created without one
DefaultSystemPrompt == "You are a helpful AI assistant."

\* Conversation(system_prompt): system_prompt is None or a str
Conversation(system_prompt) ==
    [system_prompt |-> IF Truthy(system_prompt) THEN system_prompt.s ELSE DefaultSystemPrompt,
     messages |-> << >>]

\* conversation.add_user_message(content)
add_user_message(c, content, now) ==
    [c EXCEPT !.messages = Append(@, Message("user", content, None, None, Timestamp(now)))]

\* an add_assistant_message that puts the message before the earlier ones
add_assistant_message_AtFront(c, content, fc, now) ==
    [c EXCEPT !.messages = <<Message("assistant", content, fc, None, Timestamp(now))>> \o @]

\* conversation.add_assistant_message(content, function_call)
add_assistant_message(c, content, fc, now) ==
    [c EXCEPT !.messages = Append(@, Message("assistant", content, fc, None, Timestamp(now)))]

\* function_result.dict(): the fields of the model as a dict
model_dict(r) ==
    PyDict(<< <<PyStr("function_name"), PyStr(r.function_name)>>,
              <<PyStr("parameters"), r.parameters>>,
              <<PyStr("result"), r.result>>,
              <<PyStr("error"), r.error>> >>)

\* the content of the function message made by add_function_result
FunctionResultContent(result_dict) ==
    LET function_name == DictGet(result_dict.items, PyStr("function_name"))
        error == DictGet(result_dict.items, PyStr("error"))
    IN  IF Truthy(error)
        THEN "Function " \o PyFormat(function_name) \o " error: " \o PyFormat(error)
        ELSE "Function " \o PyFormat(function_name) \o " returned: "
                 \o PyFormat(DictGet(result_dict.items, PyStr("result")))

\* conversation.add_function_result(function_result)
add_function_result(c, function_result, now) ==
    LET result_dict == model_dict(function_result)
    IN  [c EXCEPT !.messages =
            Append(@, Message("function", FunctionResultContent(result_dict), None,
                              result_dict, Timestamp(now)))]

\* conversation.clear()
Conversation_clear(c) == [c EXCEPT !.messages = << >>]

\* vars(message)
MessageVars(m) ==
    PyDict(<< <<PyStr("role"), PyStr(m.role)>>,
              <<PyStr("content"), PyStr(m.content)>>,
              <<PyStr("function_call"), m.function_call>>,
              <<PyStr("function_result"), m.function_result>>,
              <<PyStr("timestamp"), PyStr(m.timestamp)>> >>)

\* conversation.to_dict()
Conversation_to_dict(c) ==
    PyDict(<< <<PyStr("system_prompt"), PyStr(c.system_prompt)>>,
              <<PyStr("messages"),
                PyList([i \in 1..Len(c.messages) |-> MessageVars(c.messages[i])])>> >>)

\* conversation.to_json()
Conversation_to_json(c) == json_dumps_indent(Conversation_to_dict(c), 0)

\* Conversation.from_dict(data), for data whose messages carry str roles, contents and timestamps
Conversation_from_dict(data, now) ==
    LET listed == DictGet(data.items, PyStr("messages"))
        message_list == IF IndexOf(data.items, PyStr("messages")) # 0 THEN listed.elems ELSE << >>
        Built(message_data) ==
            Message(DictGet(message_data.items, PyStr("role")).s,
                    DictGet(message_data.items, PyStr("content")).s,
                    DictGet(message_data.items, PyStr("function_call")),
                    DictGet(message_data.items, PyStr("function_result")),
                    IF IndexOf(message_data.items, PyStr("timestamp")) # 0
                    THEN DictGet(message_data.items, PyStr("timestamp")).s
                    ELSE Timestamp(now))
    IN  [Conversation(DictGet(data.items, PyStr("system_prompt"))) EXCEPT
            !.messages = [i \in 1..Len(message_list) |-> Built(message_list[i])]]

\* Conversation.from_json(json_str), for a json_str that json.loads accepts
Conversation_from_json(json_str, now) == Conversation_from_dict(json_loads(json_str).value, now)

\* a reference to the object at position r of the heap
Ref(r) == [t |-> "ref", ref |-> r]

\* what a ConversationManager call did: the dict and the heap after it, the value
\* it returned (None for the methods that return nothing), whether it raised
ManagerOutcome(convs, objects, value, raised) ==
    [conversations |-> convs, heap |-> objects, value |-> value, raised |-> raised]

\* a create_conversation that keeps the conversation an id already has
create_conversation_KeepExisting(convs, objects, conversation_id, system_prompt) ==
    IF IndexOf(convs, conversation_id) # 0
    THEN ManagerOutcome(convs, objects, DictGet(convs, conversation_id), FALSE)
    ELSE LET made == Append(objects, Conversation(system_prompt))
         IN  ManagerOutcome(DictSet(convs, conversation_id, Ref(Len(made))), made,
                            Ref(Len(made)), FALSE)

\* a create_conversation that hands out the first conversation object again
create_conversation_Shared(convs, objects, conversation_id, system_prompt) ==
    LET made == Append(objects, Conversation(system_prompt))
    IN  ManagerOutcome(DictSet(convs, conversation_id, Ref(1)), made, Ref(1), FALSE)

\* manager.create_conversation(conversation_id, system_prompt)
create_conversation(convs, objects, conversation_id, system_prompt) ==
    LET made == Append(objects, Conversation(system_prompt))
    IN  ManagerOutcome(DictSet(convs, conversation_id, Ref(Len(made))), made, Ref(Len(made)), FALSE)

\* manager.get_conversation(conversation_id)
get_conversation(convs, objects, conversation_id) ==
    ManagerOutcome(convs, objects, DictGet(convs, conversation_id), FALSE)

\* a delete_conversation without the membership test: del on a missing key raises KeyError
delete_conversation_Unguarded(convs, objects, conversation_id) ==
    IF IndexOf(convs, conversation_id) # 0
    THEN ManagerOutcome(DictDel(convs, conversation_id), objects, None, FALSE)
    ELSE ManagerOutcome(convs, objects, None, TRUE)

\* manager.delete_conversation(conversation_id)
delete_conversation(convs, objects, conversation_id) ==
    IF IndexOf(convs, conversation_id) # 0
    THEN ManagerOutcome(DictDel(convs, conversation_id), objects, None, FALSE)
    ELSE ManagerOutcome(convs, objects, None, FALSE)

\* manager.get_all_conversation_ids()
get_all_conversation_ids(convs, objects) ==
    ManagerOutcome(convs, objects, PyList([i \in 1..Len(convs) |-> convs[i][1]]), FALSE)

\* a conversation that nothing has been added to
InitConversation ==
    /\ conv = Conversation(None)
    /\ clock = 0
    /\ conv_log = << >>
    /\ restored = None

----------------------------------------------------------------------------
(* The converters: RESTConverter, ImageAPIConverter, OpenAPIConverter *)

\* k in d, for a dict d and a str k
Has(d, k) == IndexOf(d.items, PyStr(k)) # 0

\* d.get(k, default)
GetOr(d, k, default) == IF Has(d, k) THEN DictGet(d.items, PyStr(k)) ELSE default

\* what a conversion did: it returned the list value, or raised exc
Converted(value) == [raised |-> FALSE, exc |-> "", value |-> value]
ConversionRaised(exc) == [raised |-> TRUE, exc |-> exc, value |-> None]

\* the {"type": "object", "properties": ..., "required": ...} of a function definition
ObjectSchema(properties, required) ==
    PyDict(<< <<PyStr("type"), PyStr("object")>>,
              <<PyStr("properties"), PyDict(properties)>>,
              <<PyStr("required"), PyList(required)>> >>)

\* d with d[k] = v added when present holds
WithKey(d, present, k, v) == IF present THEN DictSet(d, PyStr(k), v) ELSE d

\* OpenAPIConverter.type_mapping: each key maps to itself
type_mapping == {"string", "integer", "number", "boolean", "array", "object"}

\* value is a key of type_mapping
InTypeMapping(value) == value.t = "str" /\ value.s \in type_mapping

\* a param_def whose type goes through the type mapping of the structured converter
RestParamDef_Mapped(param) ==
    WithKey(WithKey(<< <<PyStr("type"),
                         IF InTypeMapping(GetOr(param, "type", PyStr("string")))
                         THEN GetOr(param, "type", PyStr("string")) ELSE PyStr("string")>> >>,
                    Has(param, "description"), "description", GetOr(param, "description", None)),
            Has(param, "enum"), "enum", GetOr(param, "enum", None))

\* param_def of RESTConverter.convert: type, description and enum as declared
RestParamDef(param) ==
    WithKey(WithKey(<< <<PyStr("type"), GetOr(param, "type", PyStr("string"))>> >>,
                    Has(param, "description"), "description", GetOr(param, "description", None)),
            Has(param, "enum"), "enum", GetOr(param, "enum", None))

\* a param_def that leaves an image parameter as it is declared
ImageParamDef_Kept(param) == RestParamDef(param)

\* param_def of ImageAPIConverter.convert_image_api
ImageParamDef(param) ==
    IF GetOr(param, "type", PyStr("string")) = PyStr("image")
    THEN << <<PyStr("type"), PyStr("string")>>,
            <<PyStr("format"), PyStr("binary")>>,
            <<PyStr("description"), GetOr(param, "description", PyStr("Image file or URL"))>> >>
    ELSE RestParamDef(param)

\* parameters["image_processing_options"] of a flagged endpoint
ImageProcessingOptions ==
    PyDict(<< <<PyStr("type"), PyStr("object")>>,
              <<PyStr("description"), PyStr("Options for image processing")>>,
              <<PyStr("properties"),
                PyDict(<< <<PyStr("resize"),
                            PyDict(<< <<PyStr("type"), PyStr("boolean")>>,
                                      <<PyStr("description"), PyStr("Whether to resize the image")>> >>)>>,
                          <<PyStr("max_size"),
                            PyDict(<< <<PyStr("type"), PyStr("integer")>>,
                                      <<PyStr("description"),
                                        PyStr("Maximum size for the image (pixels)")>> >>)>>,
                          <<PyStr("format"),
                            PyDict(<< <<PyStr("type"), PyStr("string")>>,
                                      <<PyStr("description"), PyStr("Output format for the image")>>,
                                      <<PyStr("enum"),
                                        PyList(<< PyStr("jpeg"), PyStr("png"), PyStr("webp") >>)>> >>)>>
                       >>)>> >>)

\* the loop over endpoint.get("parameters", []) from its i-th entry on: the
\* properties and the required list, or KeyError at an entry without "name"
RECURSIVE EndpointParameters(_, _, _, _, _)
EndpointParameters(params, i, parameters, required, image) ==
    IF i > Len(params) THEN [raised |-> FALSE, parameters |-> parameters, required |-> required]
    ELSE IF ~Has(params[i], "name")
    THEN [raised |-> TRUE, parameters |-> parameters, required |-> required]
    ELSE LET param == params[i]
             param_name == GetOr(param, "name", None)
             param_def == IF image THEN ImageParamDef(param) ELSE RestParamDef(param)
         IN  EndpointParameters(params, i + 1,
                                DictSet(parameters, param_name, PyDict(param_def)),
                                IF Truthy(GetOr(param, "required", PyBool(FALSE)))
                                THEN Append(required, param_name) ELSE required,
                                image)

\* gemma_function for one endpoint (image: built by the image converter)
EndpointFunction(endpoint, image) ==
    LET looped == EndpointParameters(GetOr(endpoint, "parameters", PyList(<< >>)).elems,
                                     1, << >>, << >>, image)
        parameters ==
            IF image /\ Truthy(GetOr(endpoint, "image_processing", PyBool(FALSE)))
            THEN DictSet(looped.parameters, PyStr("image_processing_options"), ImageProcessingOptions)
            ELSE looped.parameters
        gemma_function ==
            << <<PyStr("name"), GetOr(endpoint, "name", PyStr(""))>>,
               <<PyStr("description"), GetOr(endpoint, "description", PyStr(""))>>,
               <<PyStr("parameters"), ObjectSchema(parameters, looped.required)>> >>
    IN  IF looped.raised THEN ConversionRaised("KeyError")
        ELSE Converted(PyDict(WithKey(gemma_function, image, "supports_images", PyBool(TRUE))))

\* the loop over the endpoints from the i-th on; an endpoint that raises ends the conversion
RECURSIVE EndpointFunctions(_, _, _, _)
EndpointFunctions(endpoints, i, gemma_functions, image) ==
    IF i > Len(endpoints) THEN Converted(PyList(gemma_functions))
    ELSE LET one == EndpointFunction(endpoints[i], image)
         IN  IF one.raised THEN one
             ELSE EndpointFunctions(endpoints, i + 1, Append(gemma_functions, one.value), image)

\* RESTConverter.convert, from the loaded document on
RESTConverter_convert(rest_docs) ==
    IF ~IsDict(rest_docs) THEN ConversionRaised("AttributeError")
    ELSE EndpointFunctions(GetOr(rest_docs, "endpoints", PyList(<< >>)).elems, 1, << >>, FALSE)

\* ImageAPIConverter.convert_image_api, from the loaded document on
convert_image_api(api_spec) ==
    IF ~IsDict(api_spec) THEN ConversionRaised("AttributeError")
    ELSE EndpointFunctions(GetOr(api_spec, "endpoints", PyList(<< >>)).elems, 1, << >>, TRUE)

UpperLetters == "ABCDEFGHIJKLMNOPQRSTUVWXYZ"
LowerLetters == "abcdefghijklmnopqrstuvwxyz"

\* s with every character found in from replaced by the one at its place in to
RECURSIVE Translate(_, _, _)
Translate(s, from, to) ==
    IF s = "" THEN ""
    ELSE LET c == CharAt(s, 1)
             at == Find(from, c, 1)
         IN  (IF at = 0 THEN c ELSE CharAt(to, at)) \o Translate(SubSeq(s, 2, Len(s)), from, to)

\* str.lower() and str.upper(), for ASCII text
Lower(s) == Translate(s, UpperLetters, LowerLetters)
Upper(s) == Translate(s, LowerLetters, UpperLetters)

\* re.sub(r'<[^>]+>', '', s)
RECURSIVE RemoveTags(_)
RemoveTags(s) ==
    LET opens == {k \in 1..Len(s) : /\ CharAt(s, k) = "<"
                                    /\ Find(s, ">", k + 1) > k + 1}
    IN  IF opens = {} THEN s
        ELSE LET k == Min(opens)
             IN  SubSeq(s, 1, k - 1) \o RemoveTags(SubSeq(s, Find(s, ">", k + 1) + 1, Len(s)))

\* re.sub(r'\s+', ' ', s)
RECURSIVE CollapseSpace(_)
CollapseSpace(s) ==
    IF s = "" THEN ""
    ELSE IF IsSpace(CharAt(s, 1))
    THEN IF Len(s) > 1 /\ IsSpace(CharAt(s, 2))
         THEN CollapseSpace(SubSeq(s, 2, Len(s)))
         ELSE " " \o CollapseSpace(SubSeq(s, 2, Len(s)))
    ELSE CharAt(s, 1) \o CollapseSpace(SubSeq(s, 2, Len(s)))

\* OpenAPIConverter._clean_description(description), description None or a str
clean_description(description) ==
    IF ~Truthy(description) THEN ""
    ELSE Strip(CollapseSpace(RemoveTags(description.s)))

\* OpenAPIConverter._convert_parameter(param); the loop body of
\* _convert_schema_to_parameters builds prop_def in the same way
convert_parameter(param) ==
    LET declared == GetOr(param, "type", PyStr("string"))
        param_type == IF InTypeMapping(declared) THEN declared ELSE PyStr("string")
        typed == << <<PyStr("type"), param_type>> >>
        described == WithKey(typed, Has(param, "description"), "description",
                             PyStr(clean_description(GetOr(param, "description", None))))
        listed == WithKey(described, Has(param, "enum"), "enum", GetOr(param, "enum", None))
        items_type == GetOr(GetOr(param, "items", PyDict(<< >>)), "type", PyStr("string"))
    IN  PyDict(WithKey(listed,
                       param_type = PyStr("array") /\ Has(param, "items") /\ InTypeMapping(items_type),
                       "items", PyDict(<< <<PyStr("type"), items_type>> >>)))

\* the loop over schema["properties"].items() from its i-th item on
RECURSIVE SchemaProperties(_, _, _)
SchemaProperties(props, i, properties) ==
    IF i > Len(props) THEN properties
    ELSE SchemaProperties(props, i + 1, DictSet(properties, props[i][1], convert_parameter(props[i][2])))

\* OpenAPIConverter._convert_schema_to_parameters(schema): the properties as a
\* dict, and schema["required"] as it is
convert_schema_to_parameters(schema) ==
    [properties |-> SchemaProperties(GetOr(schema, "properties", PyDict(<< >>)).items, 1, << >>),
     required |-> GetOr(schema, "required", PyList(<< >>))]

\* the methods that make a function
Methods == {"get", "post", "put", "delete", "patch"}

\* [p for p in path.split("/") if p and not p.startswith("{")]
PathParts(path) == SelectSeq(Split(path, "/"), LAMBDA part : part # "" /\ CharAt(part, 1) # "{")

\* function_name of an operation: the operationId, or the name made of the
\* method and the path
FunctionName(path, method, operation) ==
    LET operation_id == GetOr(operation, "operationId", PyStr(""))
    IN  IF Truthy(operation_id) THEN operation_id
        ELSE PyStr(Lower(Translate(method \o "_" \o Join(PathParts(path), "_"), "-", "_")))

\* description of an operation: the summary, else the description, else method and path
OperationDescription(path, method, operation) ==
    LET summary == clean_description(GetOr(operation, "summary", PyStr("")))
        described == IF summary = "" /\ Has(operation, "description")
                     THEN clean_description(GetOr(operation, "description", None))
                     ELSE summary
    IN  IF described = "" THEN Upper(method) \o " " \o path ELSE described

\* the loop over operation.get("parameters", []) from its i-th entry on
RECURSIVE OperationParameters(_, _, _, _)
OperationParameters(params, i, parameters, required) ==
    IF i > Len(params) THEN [raised |-> FALSE, parameters |-> parameters, required |-> required]
    ELSE IF ~Has(params[i], "name")
    THEN [raised |-> TRUE, parameters |-> parameters, required |-> required]
    ELSE LET param_name == GetOr(params[i], "name", None)
         IN  OperationParameters(params, i + 1,
                                 DictSet(parameters, param_name, convert_parameter(params[i])),
                                 IF Truthy(GetOr(params[i], "required", PyBool(FALSE)))
                                 THEN Append(required, param_name) ELSE required)

\* parameters.update(other)
RECURSIVE DictUpdate(_, _)
DictUpdate(d, other) ==
    IF other = << >> THEN d
    ELSE DictUpdate(DictSet(d, other[1][1], other[1][2]), Tail(other))

\* gemma_function for one operation
OperationFunction(path, method, operation) ==
    LET looped == OperationParameters(GetOr(operation, "parameters", PyList(<< >>)).elems,
                                      1, << >>, << >>)
        content == GetOr(GetOr(operation, "requestBody", PyDict(<< >>)), "content", PyDict(<< >>))
        has_body == Has(operation, "requestBody") /\ Has(content, "application/json")
        body_params == convert_schema_to_parameters(
                           GetOr(GetOr(content, "application/json", PyDict(<< >>)),
                                 "schema", PyDict(<< >>)))
        parameters == IF has_body THEN DictUpdate(looped.parameters, body_params.properties)
                      ELSE looped.parameters
        required == IF has_body THEN looped.required \o body_params.required.elems
                    ELSE looped.required
    IN  IF looped.raised THEN ConversionRaised("KeyError")
        ELSE Converted(PyDict(<< <<PyStr("name"), FunctionName(path, method, operation)>>,
                                 <<PyStr("description"),
                                   PyStr(OperationDescription(path, method, operation))>>,
                                 <<PyStr("parameters"), ObjectSchema(parameters, required)>> >>))

\* the two loops of _convert_openapi_to_gemma, from the j-th operation of the
\* i-th path on; an operation that raises ends the conversion
RECURSIVE PathFunctions(_, _, _, _)
PathFunctions(paths, i, j, gemma_functions) ==
    IF i > Len(paths) THEN Converted(PyList(gemma_functions))
    ELSE IF j > Len(paths[i][2].items) THEN PathFunctions(paths, i + 1, 1, gemma_functions)
    ELSE LET method == paths[i][2].items[j][1].s
             one == OperationFunction(paths[i][1].s, method, paths[i][2].items[j][2])
         IN  IF method \notin Methods THEN PathFunctions(paths, i, j + 1, gemma_functions)
             ELSE IF one.raised THEN one
             ELSE PathFunctions(paths, i, j + 1, Append(gemma_functions, one.value))

\* OpenAPIConverter._convert_openapi_to_gemma(openapi_spec)
convert_openapi_to_gemma(openapi_spec) ==
    IF ~IsDict(openapi_spec) THEN ConversionRaised("AttributeError")
    ELSE PathFunctions(GetOr(openapi_spec, "paths", PyDict(<< >>)).items, 1, 1, << >>)

\* no document to convert
InitNormalizer ==
    /\ norm_kind = ""
    /\ norm_doc = None
    /\ norm_result = None

\* a GemmaRuntime on which execute has not been called, at second 0
InitRuntime ==
    /\ execution_history = << >>
    /\ rt_clock = 0
    /\ rt_result = None

\* the conversation_id arguments
ConversationIds == {"a", "b"}

\* a ConversationManager that nothing has been created in
InitManager ==
    /\ conversations = << >>
    /\ heap = << >>
    /\ created = [id \in ConversationIds |-> None]
    /\ mgr_result = None

----------------------------------------------------------------------------
(* State machine of the registry and the dispatcher *)

\* bookkeeping of an operation that is not a dispatch
NoCall == /\ function_call' = None
          /\ before' = functions
          /\ outcome' = None

\* no text to parse on its own
InitParser ==
    /\ parser_form = None
    /\ parser_response = ""
    /\ parser_result = None

\* a ReActExecutor that has not run yet
InitExecutor ==
    /\ conversation_history = << >>
    /\ pc = "idle"
    /\ user_query = ""
    /\ max_turns = 0
    /\ turn = 0
    /\ conversation = ""
    /\ requests = 0
    /\ dispatches = 0
    /\ calls = 0
    /\ last_turn = None
    /\ returned = None
    /\ script = << >>
    /\ budget_given = FALSE

Init ==
    /\ functions = << >>
    /\ latest = [n \in Names |-> None]
    /\ dropped = [n \in Names |-> FALSE]
    /\ function_call = None
    /\ before = << >>
    /\ outcome = None
    /\ InitExecutor
    /\ InitParser
    /\ InitConversation
    /\ InitManager
    /\ InitNormalizer
    /\ InitRuntime

\* registering name with this implementation in registry fns takes an implementation away from the name
Drops(fns, name, implementation) ==
    /\ implementation = None
    /\ get(fns, name) # None
    /\ get(fns, name).implementation # None

\* registry.register(function_def)
Register(function_def) ==
    /\ functions' = register(functions, function_def)
    /\ latest' = [latest EXCEPT ![function_def.name] = function_def]
    /\ dropped' = [dropped EXCEPT ![function_def.name] =
                      Drops(functions, function_def.name, function_def.implementation)]
    /\ NoCall
    /\ UNCHANGED <<loop_vars, parser_vars, conv_vars, mgr_vars, norm_vars, rt_vars>>

\* registry.register_from_dict(function_dict, implementation)
RegisterFromDict(function_dict, implementation) ==
    /\ functions' = register_from_dict(functions, function_dict, implementation)
    /\ latest' = [latest EXCEPT ![function_dict.name] =
                     FunctionDefinition(function_dict.name, function_dict.description,
                                        function_dict.parameters,
                                        GetSupportsImages(function_dict), implementation)]
    /\ dropped' = [dropped EXCEPT ![function_dict.name] =
                      Drops(functions, function_dict.name, implementation)]
    /\ NoCall
    /\ UNCHANGED <<loop_vars, parser_vars, conv_vars, mgr_vars, norm_vars, rt_vars>>

\* the binding the last dict named n in a batch stands for
LastOfBatch(batch, implementations, n) ==
    LET i == CHOOSE k \in 1..Len(batch) :
                 batch[k].name = n /\ \A m \in (k + 1)..Len(batch) : batch[m].name # n
        d == batch[i]
    IN  FunctionDefinition(d.name, d.description, d.parameters, GetSupportsImages(d),
                           IF implementations = None THEN None
                           ELSE IF \E k \in 1..Len(implementations.items) :
                                       implementations.items[k][1] = PyStr(n)
                           THEN LET k == CHOOSE k \in 1..Len(implementations.items) :
                                             implementations.items[k][1] = PyStr(n)
                                IN  implementations.items[k][2]
                           ELSE None)

\* registry.register_multiple(function_defs, implementations)
RegisterMultiple(function_defs, implementations) ==
    /\ functions' = register_multiple(functions, function_defs, implementations)
    /\ latest' = [n \in Names |->
                     IF \E k \in 1..Len(function_defs) : function_defs[k].name = n
                     THEN LastOfBatch(function_defs, implementations, n)
                     ELSE latest[n]]
    /\ dropped' = [n \in Names |->
                      IF \E k \in 1..Len(function_defs) : function_defs[k].name = n
                      THEN Drops(functions, n, LastOfBatch(function_defs, implementations, n).implementation)
                      ELSE dropped[n]]
    /\ NoCall
    /\ UNCHANGED <<loop_vars, parser_vars, conv_vars, mgr_vars, norm_vars, rt_vars>>

\* registry.remove(name)
Remove(name) ==
    /\ functions' = remove(functions, name)
    /\ latest' = [n \in Names |-> IF n = name THEN None ELSE latest[n]]
    /\ dropped' = [n \in Names |-> IF n = name THEN FALSE ELSE dropped[n]]
    /\ NoCall
    /\ UNCHANGED <<loop_vars, parser_vars, conv_vars, mgr_vars, norm_vars, rt_vars>>

\* registry.clear()
Clear ==
    /\ functions' = clear(functions)
    /\ latest' = [n \in Names |-> None]
    /\ dropped' = [n \in Names |-> FALSE]
    /\ NoCall
    /\ UNCHANGED <<loop_vars, parser_vars, conv_vars, mgr_vars, norm_vars, rt_vars>>

\* sdk.execute_function(fc)
ExecuteFunction(fc) ==
    /\ function_call' = fc
    /\ before' = functions
    /\ outcome' = execute_function(functions, fc)
    /\ functions' = outcome'.functions
    /\ UNCHANGED <<latest, dropped>>
    /\ UNCHANGED <<loop_vars, parser_vars, conv_vars, mgr_vars, norm_vars, rt_vars>>

Next ==
    \/ \E function_def \in Definitions : Register(function_def)
    \/ \E function_dict \in FunctionDicts, implementation \in Impls \cup {None} :
           RegisterFromDict(function_dict, implementation)
    \/ \E function_defs \in Batches, implementations \in ImplementationMaps :
           RegisterMultiple(function_defs, implementations)
    \/ \E name \in CallNames : Remove(name)
    \/ Clear
    \/ \E fc \in FunctionCalls : ExecuteFunction(fc)

Spec == Init /\ [][Next]_vars

----------------------------------------------------------------------------
(* Inputs of the ReAct loop *)

\* largest turn budget handed to execute
MaxTurns == 2

\* number of execute calls on one executor
MaxCalls == 1

Queries == {"What is the weather in Paris?"}

\* texts the model adds to the conversation
TextFinal ==
    " I know the answer.\nFinal Answer: It is sunny in Paris.\n"
TextAction ==
    " I need the weather.\nAction: I should use the tool ^get_weather^ with input ^{\"location\": \"Paris\"}^\n"
TextActionTime ==
    " I need the time.\nAction: I should use the tool ^get_time^ with input ^{\"zone\": \"UTC\"}^\n"
TextActionUnknown ==
    " Thought: try foo\nAction: I should use the tool ^foo^ with input ^a:1, b:2^"
TextActionEmptyMap ==
    "\nAction: I should use the tool ^get_time^ with input ^{}^\n"
TextActionList ==
    "\nAction: I should use the tool ^get_weather^ with input ^[1]^\n"
TextBoth ==
    " Done.\nAction: I should use the tool ^get_weather^ with input ^{\"location\": \"Paris\"}^\nFinal Answer: Sunny. "
TextEmptyFinal ==
    "\nAction: I should use the tool ^get_weather^ with input ^{\"location\": \"Paris\"}^\nFinal Answer:\n"
TextNone ==
    " I am not sure what to do."
TextMalformed ==
    " Let me check.\nAction: get_weather(Paris)\n"

ModelTexts == {TextFinal, TextAction, TextActionTime, TextActionUnknown, TextActionEmptyMap,
               TextActionList, TextBoth, TextEmptyFinal, TextNone, TextMalformed}

\* registries the executor runs over, as register_multiple builds them:
\* get_weather bound and get_time schema-only; get_time failing with an empty
\* text and get_weather returning a dict; get_time returning a text with
\* the markers of a step in it
LoopRegistries ==
    {register_multiple(<< >>, <<WeatherV1, TimeV1>>,
                       PyDict(<< <<PyStr("get_weather"), WeatherImpl>> >>)),
     register_multiple(<< >>, <<TimeV1, WeatherV2>>,
                       PyDict(<< <<PyStr("get_weather"), LookupImpl>>,
                                 <<PyStr("get_time"), FailSilentImpl>> >>)),
     register_multiple(<< >>, <<TimeV1>>,
                       PyDict(<< <<PyStr("get_time"), ClockImpl>> >>))}

----------------------------------------------------------------------------
(* State machine of the ReAct loop *)

InitLoop ==
    /\ functions \in LoopRegistries
    /\ latest = [n \in Names |-> get(functions, n)]
    /\ dropped = [n \in Names |-> FALSE]
    /\ function_call = None
    /\ before = << >>
    /\ outcome = None
    /\ InitExecutor
    /\ InitParser
    /\ InitConversation
    /\ InitManager
    /\ InitNormalizer
    /\ InitRuntime

\* max_turns when the caller gives none
DefaultMaxTurns == 5

\* a loop that runs one turn more than its budget
MoreTurns_OneTooMany(completed, budget) == completed <= budget

\* for turn in range(max_turns): another turn follows the completed ones
MoreTurns(completed, budget) == completed < budget

\* an execute call up to its first model request, or up to its return when
\* the budget allows no turn
Start(query, budget, given) ==
    /\ pc = "idle"
    /\ calls' = calls + 1
    /\ user_query' = query
    /\ max_turns' = budget
    /\ turn' = 0
    /\ requests' = 0
    /\ dispatches' = 0
    /\ last_turn' = None
    /\ script' = << >>
    /\ budget_given' = given
    /\ conversation' = create_react_prompt(functions, conversation_history, query)
    /\ IF MoreTurns(0, budget)
       THEN pc' = "awaiting" /\ returned' = None
       ELSE pc' = "idle" /\ returned' = ReturnedString(Sentinel)
    /\ UNCHANGED <<conversation_history, sdk_vars, parser_vars, conv_vars, mgr_vars, norm_vars, rt_vars>>

\* an execute call of a run that makes at most MaxCalls of them
Invoke(query, budget, given) == calls < MaxCalls /\ Start(query, budget, given)

\* executor.execute(query, max_turns=budget)
Execute(query, budget) == Invoke(query, budget, TRUE)

\* executor.execute(query)
ExecuteDefault(query) == Invoke(query, DefaultMaxTurns, FALSE)

\* the model answers the pending request with the conversation followed by
\* text; execute runs the body of its loop, and on to the next request or to
\* its return
Turn(text) ==
    /\ pc = "awaiting"
    /\ \E response \in {conversation \o text} :
       \E new_content \in {NewContent(response, conversation)} :
       \E parsed \in {parse_react_response(new_content)} :
       \E body \in {LoopBody(functions, conversation_history, response, new_content, parsed)} :
           /\ requests' = requests + 1
           /\ script' = Append(script, text)
           /\ conversation_history' = body.history
           /\ conversation' = body.conversation
           /\ last_turn' = [new_content |-> body.new_content, parsed |-> body.parsed,
                            kind |-> body.kind, dispatched |-> body.act # None,
                            history |-> body.history, conversation |-> body.conversation]
           /\ IF body.act # None
              THEN /\ dispatches' = dispatches + 1
                   /\ function_call' = [name |-> body.parsed.action.s,
                                        parameters |-> body.parsed.action_input]
                   /\ before' = functions
                   /\ outcome' = body.act.out
                   /\ functions' = body.act.out.functions
              ELSE /\ dispatches' = dispatches
                   /\ NoCall
                   /\ UNCHANGED functions
           /\ turn' = IF body.kind = "continue" THEN turn + 1 ELSE turn
           /\ CASE body.kind = "final" ->
                     pc' = "idle" /\ returned' = ReturnedString(body.parsed.final_answer.s)
                [] body.kind = "break" ->
                     pc' = "idle" /\ returned' = ReturnedString(Sentinel)
                [] body.kind = "raise" ->
                     pc' = "idle" /\ returned' = RaisedFrom(body.act.out.exc)
                [] body.kind = "continue" ->
                     IF MoreTurns(turn + 1, max_turns)
                     THEN pc' = "awaiting" /\ returned' = None
                     ELSE pc' = "idle" /\ returned' = ReturnedString(Sentinel)
    /\ UNCHANGED <<latest, dropped, user_query, max_turns, calls, budget_given, parser_vars, conv_vars, mgr_vars, norm_vars, rt_vars>>

\* a clear that leaves the oldest entry in the list
clear_conversation_KeepOldest(history) == SubSeq(history, 1, 1)

\* self.conversation_history.clear()
clear_conversation(history) == << >>

\* executor.clear_conversation()
ClearConversation ==
    /\ pc = "idle"
    /\ Len(conversation_history) > 0
    /\ conversation_history' = clear_conversation(conversation_history)
    /\ UNCHANGED <<sdk_vars, pc, user_query, max_turns, turn, conversation,
                   requests, dispatches, calls, last_turn, returned, script, budget_given,
                   parser_vars, conv_vars, mgr_vars, norm_vars, rt_vars>>

NextLoop ==
    \/ \E query \in Queries, budget \in 0..MaxTurns : Execute(query, budget)
    \/ \E text \in ModelTexts : Turn(text)
    \/ ClearConversation

LoopSpec == InitLoop /\ [][NextLoop]_vars

\* one execute call on a fresh executor, with or without a max_turns argument
NextSingleCall ==
    \/ \E query \in Queries, budget \in 0..MaxTurns : calls = 0 /\ Execute(query, budget)
    \/ \E query \in Queries : calls = 0 /\ ExecuteDefault(query)
    \/ \E text \in ModelTexts : Turn(text)
    \/ ClearConversation

SingleCallSpec == InitLoop /\ [][NextSingleCall]_vars

----------------------------------------------------------------------------
(* One executor over several execute calls, the registry changing in between *)

\* number of execute calls on the executor of a session
MaxSessionCalls == 2

\* what the model adds in a session: a final answer or an action
SessionTexts == {TextFinal, TextActionTime}

\* the definitions the host registers during a session
SessionDefinitions ==
    {FunctionDefinition(WeatherV2.name, WeatherV2.description, WeatherV2.parameters, TRUE, LookupImpl),
     FunctionDefinition(TimeV1.name, TimeV1.description, TimeV1.parameters, FALSE, ClockImpl)}

\* the host changes the registry between execute calls, never during one
RegisterBetweenCalls(function_def) == pc = "idle" /\ Register(function_def)
RemoveBetweenCalls(name) == pc = "idle" /\ Remove(name)

\* executor.execute(query, max_turns=budget), again on the same executor
ExecuteInSession(query, budget) == calls < MaxSessionCalls /\ Start(query, budget, TRUE)

NextSession ==
    \/ \E function_def \in SessionDefinitions : RegisterBetweenCalls(function_def)
    \/ \E name \in Names : RemoveBetweenCalls(name)
    \/ \E query \in Queries, budget \in 0..MaxTurns : ExecuteInSession(query, budget)
    \/ \E text \in SessionTexts : Turn(text)
    \/ ClearConversation

SessionSpec == Init /\ [][NextSession]_vars

----------------------------------------------------------------------------
(* parse_react_response on its own: texts written from a thought, an action *)
(* line and a final answer, each present or not                            *)

Thoughts == {None, PyStr(" I need to get the weather for New York."),
             PyStr("  first this,\n then that  ")}

ToolNames == {"get_weather", " bar "}

Payloads == {"{\"a\":1}", "{\"location\": \"New York\"}", " {\"a\": {\"b\": [1, true, null]}} ",
             "{}", "[1, 2]", "5", "{\n  \"a\": 1\n}",
             "a:1, b:2", " a : 1 ,junk, a: x:y ,", "hello", ""}

ActionLines == {None} \cup {[name |-> n, payload |-> pl] : n \in ToolNames, pl \in Payloads}

FinalAnswers == {None, PyStr(" The weather in New York is sunny. \n    "), PyStr("")}

Forms == [thought : Thoughts, action : ActionLines, final : FinalAnswers]

\* the text of a form: the sections that are present, in the order of the
\* format the prompt asks for, one per line
TextOf(form) ==
    "\n"
    \o (IF form.thought = None THEN "" ELSE "Thought:" \o form.thought.s \o "\n")
    \o (IF form.action = None THEN ""
        ELSE "Action: I should use the tool " \o BT \o form.action.name \o BT
                 \o " with input " \o BT \o form.action.payload \o BT \o "\n")
    \o (IF form.final = None THEN "" ELSE "Final Answer:" \o form.final.s)

InitParse ==
    /\ functions = << >>
    /\ latest = [n \in Names |-> None]
    /\ dropped = [n \in Names |-> FALSE]
    /\ function_call = None
    /\ before = << >>
    /\ outcome = None
    /\ InitExecutor
    /\ parser_form \in Forms
    /\ parser_response = TextOf(parser_form)
    /\ parser_result = None
    /\ InitConversation
    /\ InitManager
    /\ InitNormalizer
    /\ InitRuntime

\* executor.parse_react_response(parser_response)
Parse ==
    /\ parser_result = None
    /\ parser_result' = parse_react_response(parser_response)
    /\ UNCHANGED <<sdk_vars, loop_vars, parser_form, parser_response, conv_vars, mgr_vars, norm_vars, rt_vars>>

NextParse == Parse

ParseSpec == InitParse /\ [][NextParse]_vars

----------------------------------------------------------------------------
(* State machine of one Conversation *)

\* the most messages created on one conversation object
MaxMessages == 2

\* the system_prompt argument of the constructor
SystemPrompts == {None, PyStr(""), PyStr("Answer briefly.")}

UserContents == {"What is the weather in Paris?"}

\* the arguments of add_assistant_message
AssistantMessages ==
    {[content |-> "Let me check.",
      function_call |-> PyDict(<< <<PyStr("name"), PyStr("get_weather")>>,
                                  <<PyStr("parameters"),
                                    PyDict(<< <<PyStr("location"), PyStr("Paris")>> >>)>> >>)],
     [content |-> "It is sunny.", function_call |-> None]}

ParisArguments == PyDict(<< <<PyStr("location"), PyStr("Paris")>> >>)

\* results of dispatched calls: a str, a dict and a tuple value, an error with and without text
CallResults ==
    {FunctionCallResult("get_weather", ParisArguments, PyStr("Sunny"), None),
     FunctionCallResult("get_weather", ParisArguments,
                        PyDict(<< <<PyStr("temp"), PyInt(21)>> >>), None),
     FunctionCallResult("get_location", PyDict(<< >>), PyTuple(<< PyInt(48), PyInt(2) >>), None),
     FunctionCallResult("get_time", PyDict(<< >>), None, PyStr("boom")),
     FunctionCallResult("get_time", PyDict(<< >>), None, PyStr(""))}

\* conversation = Conversation(system_prompt)
InitConv ==
    /\ functions = << >>
    /\ latest = [n \in Names |-> None]
    /\ dropped = [n \in Names |-> FALSE]
    /\ function_call = None
    /\ before = << >>
    /\ outcome = None
    /\ InitExecutor
    /\ InitParser
    /\ \E system_prompt \in SystemPrompts : conv = Conversation(system_prompt)
    /\ clock = 0
    /\ conv_log = << >>
    /\ restored = None
    /\ InitManager
    /\ InitNormalizer
    /\ InitRuntime

\* conversation.add_user_message(content)
AddUserMessage(content) ==
    /\ clock < MaxMessages
    /\ conv' = add_user_message(conv, content, clock)
    /\ clock' = clock + 1
    /\ conv_log' = Append(conv_log, [op |-> "add_user_message", content |-> content])
    /\ restored' = None
    /\ UNCHANGED <<sdk_vars, loop_vars, parser_vars, mgr_vars, norm_vars, rt_vars>>

\* conversation.add_assistant_message(arg.content, arg.function_call)
AddAssistantMessage(arg) ==
    /\ clock < MaxMessages
    /\ conv' = add_assistant_message(conv, arg.content, arg.function_call, clock)
    /\ clock' = clock + 1
    /\ conv_log' = Append(conv_log, [op |-> "add_assistant_message", content |-> arg.content,
                                      function_call |-> arg.function_call])
    /\ restored' = None
    /\ UNCHANGED <<sdk_vars, loop_vars, parser_vars, mgr_vars, norm_vars, rt_vars>>

\* conversation.add_function_result(function_result)
AddFunctionResult(function_result) ==
    /\ clock < MaxMessages
    /\ conv' = add_function_result(conv, function_result, clock)
    /\ clock' = clock + 1
    /\ conv_log' = Append(conv_log, [op |-> "add_function_result",
                                      function_result |-> function_result])
    /\ restored' = None
    /\ UNCHANGED <<sdk_vars, loop_vars, parser_vars, mgr_vars, norm_vars, rt_vars>>

\* conversation.clear()
ClearMessages ==
    /\ conv.messages # << >>
    /\ conv' = Conversation_clear(conv)
    /\ conv_log' = << >>
    /\ restored' = None
    /\ UNCHANGED <<sdk_vars, loop_vars, parser_vars, mgr_vars, norm_vars, rt_vars, clock>>

\* Conversation.from_dict(conversation.to_dict()) and
\* Conversation.from_json(conversation.to_json())
RoundTrip ==
    /\ restored = None
    /\ \E data \in {Conversation_to_dict(conv)} :
       \E json_str \in {Conversation_to_json(conv)} :
       \E by_dict \in {Conversation_from_dict(data, clock)} :
       \E by_json \in {Conversation_from_json(json_str, clock)} :
           restored' = [from_dict |-> by_dict, from_json |-> by_json]
    /\ UNCHANGED <<sdk_vars, loop_vars, parser_vars, mgr_vars, norm_vars, rt_vars, conv, clock, conv_log>>

NextConv ==
    \/ \E content \in UserContents : AddUserMessage(content)
    \/ \E arg \in AssistantMessages : AddAssistantMessage(arg)
    \/ \E function_result \in CallResults : AddFunctionResult(function_result)
    \/ ClearMessages
    \/ RoundTrip

ConvSpec == InitConv /\ [][NextConv]_vars

----------------------------------------------------------------------------
(* State machine of the ConversationManager *)

\* the most Conversation objects one manager creates
MaxConversations == 3

\* manager = ConversationManager()
InitMgr ==
    /\ functions = << >>
    /\ latest = [n \in Names |-> None]
    /\ dropped = [n \in Names |-> FALSE]
    /\ function_call = None
    /\ before = << >>
    /\ outcome = None
    /\ InitExecutor
    /\ InitParser
    /\ InitConversation
    /\ InitManager
    /\ InitNormalizer
    /\ InitRuntime

\* the bookkeeping of a manager call: what it was, what it found, what it did
Called(op, conversation_id, done) ==
    /\ conversations' = done.conversations
    /\ heap' = done.heap
    /\ mgr_result' = [op |-> op, id |-> conversation_id, found |-> conversations,
                      value |-> done.value, raised |-> done.raised]

\* manager.create_conversation(conversation_id, system_prompt)
CreateConversation(conversation_id, system_prompt) ==
    /\ Len(heap) < MaxConversations
    /\ \E done \in {create_conversation(conversations, heap, conversation_id, system_prompt)} :
          /\ Called("create_conversation", conversation_id, done)
          /\ created' = [created EXCEPT ![conversation_id] = done.value]
    /\ UNCHANGED <<sdk_vars, loop_vars, parser_vars, norm_vars, rt_vars, conv_vars>>

\* manager.get_conversation(conversation_id)
GetConversation(conversation_id) ==
    /\ Called("get_conversation", conversation_id,
              get_conversation(conversations, heap, conversation_id))
    /\ UNCHANGED <<sdk_vars, loop_vars, parser_vars, norm_vars, rt_vars, conv_vars, created>>

\* manager.delete_conversation(conversation_id)
DeleteConversation(conversation_id) ==
    /\ \E done \in {delete_conversation(conversations, heap, conversation_id)} :
          /\ Called("delete_conversation", conversation_id, done)
          /\ created' = IF done.raised THEN created
                        ELSE [created EXCEPT ![conversation_id] = None]
    /\ UNCHANGED <<sdk_vars, loop_vars, parser_vars, norm_vars, rt_vars, conv_vars>>

\* manager.get_all_conversation_ids()
GetAllConversationIds ==
    /\ Called("get_all_conversation_ids", "", get_all_conversation_ids(conversations, heap))
    /\ UNCHANGED <<sdk_vars, loop_vars, parser_vars, norm_vars, rt_vars, conv_vars, created>>

\* reference.add_user_message(content), on a conversation the manager returned earlier
AddThrough(r, content) ==
    /\ clock < MaxMessages
    /\ heap' = [heap EXCEPT ![r] = add_user_message(@, content, clock)]
    /\ clock' = clock + 1
    /\ mgr_result' = None
    /\ UNCHANGED <<sdk_vars, loop_vars, parser_vars, norm_vars, rt_vars, conv, conv_log, restored,
                   conversations, created>>

\* reference.clear(), on a conversation the manager returned earlier
ClearThrough(r) ==
    /\ heap[r].messages # << >>
    /\ heap' = [heap EXCEPT ![r] = Conversation_clear(@)]
    /\ mgr_result' = None
    /\ UNCHANGED <<sdk_vars, loop_vars, parser_vars, norm_vars, rt_vars, conv_vars, conversations, created>>

NextMgr ==
    \/ \E conversation_id \in ConversationIds, system_prompt \in {None, PyStr("Answer briefly.")} :
          CreateConversation(conversation_id, system_prompt)
    \/ \E conversation_id \in ConversationIds : GetConversation(conversation_id)
    \/ \E conversation_id \in ConversationIds : DeleteConversation(conversation_id)
    \/ GetAllConversationIds
    \/ \E r \in 1..Len(heap), content \in UserContents : AddThrough(r, content)
    \/ \E r \in 1..Len(heap) : ClearThrough(r)

MgrSpec == InitMgr /\ [][NextMgr]_vars

----------------------------------------------------------------------------
(* State machine of the converters: one document, one conversion *)

\* the most parameters declared by one endpoint or operation
MaxParams == 2

\* a dict with str keys: pairs is a sequence of <<key, value>> with key a string
Obj(pairs) == PyDict([i \in 1..Len(pairs) |-> <<PyStr(pairs[i][1]), pairs[i][2]>>])

\* sequences without repetition of at most n members of S
RECURSIVE DistinctSeqs(_, _)
DistinctSeqs(S, n) ==
    IF n = 0 THEN {<< >>}
    ELSE {<< >>} \cup UNION {{<<x>> \o q : q \in {r \in DistinctSeqs(S, n - 1) :
                                                     \A i \in 1..Len(r) : r[i] # x}} : x \in S}

\* the entries of "parameters" in a flat or image document: declared with and
\* without type, description, enum and required; an image; a type no JSON
\* schema has; the name the image converter uses itself; an entry without a name
EndpointParams ==
    {Obj(<< <<"name", PyStr("location")>>, <<"type", PyStr("string")>>,
            <<"required", PyBool(TRUE)>> >>),
     Obj(<< <<"name", PyStr("units")>>, <<"type", PyStr("string")>>,
            <<"description", PyStr("Temperature  <b>units</b>")>>,
            <<"enum", PyList(<< PyStr("c"), PyStr("f") >>)>>,
            <<"required", PyBool(FALSE)>> >>),
     Obj(<< <<"name", PyStr("photo")>>, <<"type", PyStr("image")>>,
            <<"required", PyBool(TRUE)>> >>),
     Obj(<< <<"name", PyStr("count")>>, <<"type", PyStr("int32")>> >>),
     Obj(<< <<"name", PyStr("verbose")>>, <<"required", PyBool(TRUE)>> >>),
     Obj(<< <<"name", PyStr("image_processing_options")>>, <<"type", PyStr("string")>> >>),
     Obj(<< <<"type", PyStr("string")>>, <<"required", PyBool(TRUE)>> >>)}

\* two entries of one list declare different names
DistinctNames(params) ==
    \A i, j \in 1..Len(params) :
        i # j /\ Has(params[i], "name") /\ Has(params[j], "name")
            => GetOr(params[i], "name", None) # GetOr(params[j], "name", None)

EndpointParamLists == {q \in DistinctSeqs(EndpointParams, MaxParams) : DistinctNames(q)}

\* endpoints: with a parameter list, flagged for image processing or not; one
\* without "parameters"
Endpoints ==
    {Obj(<< <<"name", PyStr("getWeather")>>, <<"description", PyStr("Get weather")>>,
            <<"parameters", PyList(q)>> >>) : q \in EndpointParamLists}
    \cup {Obj(<< <<"name", PyStr("analyze")>>, <<"description", PyStr("Analyze an image")>>,
                 <<"parameters", PyList(q)>>, <<"image_processing", PyBool(TRUE)>> >>) :
             q \in EndpointParamLists}
    \cup {Obj(<< <<"name", PyStr("ping")>> >>)}

\* an endpoint that every converter accepts
PlainEndpoint ==
    Obj(<< <<"name", PyStr("getTime")>>, <<"description", PyStr("Get the time")>>,
           <<"parameters", PyList(<< Obj(<< <<"name", PyStr("zone")>>,
                                            <<"type", PyStr("string")>> >>) >>)>> >>)

\* flat and image documents: one endpoint, or two with PlainEndpoint before or
\* after it; and documents of another shape: no endpoint, no "endpoints", a
\* structured document, a list
EndpointDocuments ==
    {Obj(<< <<"endpoints", PyList(<<e>>)>> >>) : e \in Endpoints}
    \cup {Obj(<< <<"endpoints", PyList(<<e, PlainEndpoint>>)>> >>) : e \in Endpoints}
    \cup {Obj(<< <<"endpoints", PyList(<<PlainEndpoint, e>>)>> >>) : e \in Endpoints}
    \cup {Obj(<< <<"endpoints", PyList(<< >>)>> >>),
          Obj(<< <<"title", PyStr("Weather API")>> >>),
          Obj(<< <<"openapi", PyStr("3.0.0")>>, <<"paths", PyDict(<< >>)>> >>),
          PyList(<< PlainEndpoint >>)}

\* the entries of "parameters" of an operation: typed, of a type outside the
\* mapping, arrays with items inside and outside the mapping, typed under
\* "schema" only, and one without a name
OperationParams ==
    {Obj(<< <<"name", PyStr("id")>>, <<"in", PyStr("path")>>, <<"type", PyStr("integer")>>,
            <<"required", PyBool(TRUE)>> >>),
     Obj(<< <<"name", PyStr("limit")>>, <<"in", PyStr("query")>>, <<"type", PyStr("int64")>>,
            <<"description", PyStr("Max <i>items</i>\n per page ")>> >>),
     Obj(<< <<"name", PyStr("tags")>>, <<"type", PyStr("array")>>,
            <<"items", Obj(<< <<"type", PyStr("uuid")>> >>)>>, <<"required", PyBool(FALSE)>> >>),
     Obj(<< <<"name", PyStr("fields")>>, <<"type", PyStr("array")>>,
            <<"items", Obj(<< <<"type", PyStr("string")>> >>)>>,
            <<"enum", PyList(<< PyStr("name"), PyStr("age") >>)>> >>),
     Obj(<< <<"name", PyStr("q")>>, <<"schema", Obj(<< <<"type", PyStr("string")>> >>)>>,
            <<"required", PyBool(TRUE)>> >>),
     Obj(<< <<"in", PyStr("query")>>, <<"required", PyBool(TRUE)>> >>)}

OperationParamLists == {q \in DistinctSeqs(OperationParams, MaxParams) : DistinctNames(q)}

TitleProperty == Obj(<< <<"type", PyStr("string")>>, <<"description", PyStr("The title")>> >>)

\* a requestBody whose application/json schema is schema
JsonBody(schema) ==
    Obj(<< <<"content", Obj(<< <<"application/json", Obj(<< <<"schema", schema>> >>)>> >>)>> >>)

\* the requestBody values: none (None here), a schema whose required names are
\* all among its properties, one that requires a name it does not declare, a
\* reference, a body that is not JSON, a schema that declares the name of a parameter
RequestBodies ==
    {None,
     JsonBody(Obj(<< <<"type", PyStr("object")>>,
                     <<"properties", Obj(<< <<"title", TitleProperty>>,
                                            <<"labels", Obj(<< <<"type", PyStr("array")>>,
                                                               <<"items", Obj(<< <<"type", PyStr("string")>> >>)>> >>)>> >>)>>,
                     <<"required", PyList(<< PyStr("title") >>)>> >>)),
     JsonBody(Obj(<< <<"type", PyStr("object")>>,
                     <<"properties", Obj(<< <<"title", TitleProperty>> >>)>>,
                     <<"required", PyList(<< PyStr("title"), PyStr("owner") >>)>> >>)),
     JsonBody(Obj(<< <<"$ref", PyStr("#/components/schemas/Pet")>> >>)),
     Obj(<< <<"content", Obj(<< <<"text/plain", Obj(<< <<"schema", TitleProperty>> >>)>> >>)>> >>),
     JsonBody(Obj(<< <<"type", PyStr("object")>>,
                     <<"properties", Obj(<< <<"id", Obj(<< <<"type", PyStr("date")>> >>)>> >>)>>,
                     <<"required", PyList(<< PyStr("id") >>)>> >>))}

\* an operation with these parameters and this body, with or without operationId
Operation(params, body, named) ==
    PyDict(WithKey(WithKey(<< <<PyStr("summary"), PyStr("Update a <b>pet</b>")>>,
                              <<PyStr("parameters"), PyList(params)>> >>,
                           body # None, "requestBody", body),
                   named, "operationId", PyStr("updatePet")))

Operations ==
    {Operation(q, body, named) : q \in OperationParamLists, body \in RequestBodies, named \in BOOLEAN}

\* operations without operationId: with a description only, with nothing
DescribedOperation == Obj(<< <<"description", PyStr(" List  the pets ")>> >>)
BareOperation == Obj(<< <<"summary", PyStr("<br>")>> >>)

\* a document with these paths
OpenAPI(paths) == Obj(<< <<"openapi", PyStr("3.0.0")>>, <<"paths", Obj(paths)>> >>)

\* structured documents: one operation; several operations under one path and
\* under several paths, next to a key that is no method; and documents of
\* another shape: no "paths", no path, a flat document, a list
OpenAPIDocuments ==
    {OpenAPI(<< <<"/pets/{id}", Obj(<< <<"put", operation>> >>)>> >>) : operation \in Operations}
    \cup {OpenAPI(<< <<"/pets", Obj(<< <<"get", DescribedOperation>>,
                                        <<"post", BareOperation>> >>)>> >>),
          OpenAPI(<< <<"/pets", Obj(<< <<"parameters", PyList(<< >>)>>,
                                        <<"get", BareOperation>> >>)>>,
                     <<"/Pet-Store/{store}/items", Obj(<< <<"delete", DescribedOperation>> >>)>> >>),
          OpenAPI(<< <<"/pet-store", Obj(<< <<"get", DescribedOperation>> >>)>>,
                     <<"/pet_store", Obj(<< <<"get", BareOperation>> >>)>> >>),
          OpenAPI(<< >>),
          Obj(<< <<"openapi", PyStr("3.0.0")>>, <<"info", Obj(<< <<"title", PyStr("Pets")>> >>)>> >>),
          Obj(<< <<"endpoints", PyList(<< PlainEndpoint >>)>> >>),
          PyList(<< >>)}

\* a document loaded for one of the three entry points
InitNorm ==
    /\ functions = << >>
    /\ latest = [n \in Names |-> None]
    /\ dropped = [n \in Names |-> FALSE]
    /\ function_call = None
    /\ before = << >>
    /\ outcome = None
    /\ InitExecutor
    /\ InitParser
    /\ InitConversation
    /\ InitManager
    /\ \/ norm_kind = "openapi" /\ norm_doc \in OpenAPIDocuments
       \/ norm_kind \in {"rest", "image"} /\ norm_doc \in EndpointDocuments
    /\ norm_result = None
    /\ InitRuntime

\* the conversion of norm_doc gave done
Normalized(kind, done) ==
    /\ norm_kind = kind
    /\ norm_result = None
    /\ norm_result' = done
    /\ UNCHANGED <<sdk_vars, loop_vars, parser_vars, conv_vars, mgr_vars, norm_kind, norm_doc, rt_vars>>

\* OpenAPIConverter.convert, from the loaded document on
ConvertOpenAPI == \E done \in {convert_openapi_to_gemma(norm_doc)} : Normalized("openapi", done)

\* RESTConverter.convert, from the loaded document on
ConvertREST == \E done \in {RESTConverter_convert(norm_doc)} : Normalized("rest", done)

\* ImageAPIConverter.convert_image_api, from the loaded document on
ConvertImageAPI == \E done \in {convert_image_api(norm_doc)} : Normalized("image", done)

NextNorm == ConvertOpenAPI \/ ConvertREST \/ ConvertImageAPI

NormSpec == InitNorm /\ [][NextNorm]_vars

----------------------------------------------------------------------------
(* GemmaRuntime: execute and the execution history *)

\* most records the execution history holds
MaxExecutions == 2

\* last second the wall clock reaches
MaxSeconds == 1

\* the registry of the runtime's sdk, as register_functions builds it:
\* get_weather bound, get_time schema-only
RuntimeRegistry ==
    register_multiple(<< >>, <<WeatherV1, TimeV1>>,
                      PyDict(<< <<PyStr("get_weather"), WeatherImpl>> >>))

RuntimeQueries == {"What is the weather in Paris?", "What time is it?"}

\* texts tokenizer.decode gives for the generated sequence
ResponseCall == "{\"name\": \"get_weather\", \"parameters\": {\"location\": \"Paris\"}}"
ResponseUnknown == "{\"name\": \"foo\", \"parameters\": {}}"
ResponsePlain == "The weather is sunny."
ResponseNoParameters == "{\"name\": \"get_time\"}"
ResponseList == "[1]"
ResponseEmpty == "{}"

Responses == {ResponseCall, ResponseUnknown, ResponsePlain, ResponseNoParameters,
              ResponseList, ResponseEmpty}

\* what model.generate does: it gives a sequence that decodes to text, or raises
Generations == {[raised |-> FALSE, text |-> r] : r \in Responses}
               \cup {[raised |-> TRUE, text |-> ""]}

\* the runs of sdk.execute: model and tokenizer set and a generation, or not set
Runs == {[ready |-> TRUE, generation |-> g] : g \in Generations}
        \cup {[ready |-> FALSE, generation |-> [raised |-> TRUE, text |-> ""]]}

\* parse_function_call(response, "json"): the value json.loads gives, None when it raises
parse_function_call(response) ==
    LET loaded == json_loads(response)
    IN  IF loaded.ok THEN loaded.value ELSE None

\* parse_function_call of each of the texts above, evaluated once
ParsedResponses == [response \in Responses |-> parse_function_call(response)]

\* the dict parse_function_call gave, as execute_function reads it: the keys
\* "name" and "parameters" that are present
CallOf(parsed) ==
    [k \in {key \in {"name", "parameters"} : Has(parsed, key)} |->
        IF k = "name" THEN DictGet(parsed.items, PyStr("name")).s
        ELSE DictGet(parsed.items, PyStr("parameters"))]

\* what sdk.execute did: it returned (result, response) or raised exc
SdkReturned(result, response, invoked) ==
    [raised |-> FALSE, exc |-> "", result |-> result, response |-> response, invoked |-> invoked]
SdkRaised(exc, invoked) ==
    [raised |-> TRUE, exc |-> exc, result |-> None, response |-> "", invoked |-> invoked]

\* GemmaSDK.execute(user_query, "json") over registry fns; ready says that model
\* and tokenizer are set, generation is what model.generate does
sdk_execute(fns, ready, generation) ==
    IF ~ready THEN SdkRaised("ValueError", << >>)
    ELSE IF generation.raised THEN SdkRaised("RuntimeError", << >>)
    ELSE LET response == generation.text
             parsed == ParsedResponses[response]
         IN  IF ~Truthy(parsed) THEN SdkReturned(None, response, << >>)
             ELSE IF ~IsDict(parsed) THEN SdkRaised("TypeError", << >>)
             ELSE LET done == execute_function(fns, CallOf(parsed))
                  IN  IF done.raised THEN SdkRaised(done.exc, done.invoked)
                      ELSE SdkReturned(done.result, response, done.invoked)

\* import_time().strftime("%Y-%m-%d %H:%M:%S") at clock reading now
RecordTimestamp(now) == "2026-01-01 00:00:0" \o IntToStr(now)

\* the execution_record of a call that sdk.execute returned from
ExecutionRecord(query, done, now) ==
    [query |-> query,
     response |-> done.response,
     function_call |-> IF done.result = None THEN None ELSE model_dict(done.result),
     timestamp |-> RecordTimestamp(now)]

\* a runtime that puts the record in front of the earlier ones
runtime_execute_Prepend(history, query, done, now) ==
    IF done.raised THEN history
    ELSE << ExecutionRecord(query, done, now) >> \o history

\* a runtime that writes the record before it knows that the call completed
runtime_execute_RecordFailures(history, query, done, now) ==
    Append(history, ExecutionRecord(query, done, now))

\* the history after GemmaRuntime.execute: the exception of sdk.execute leaves
\* the method before the append
runtime_execute(history, query, done, now) ==
    IF done.raised THEN history
    ELSE Append(history, ExecutionRecord(query, done, now))

\* a clear that leaves the oldest record
clear_execution_history_KeepOldest(history) ==
    IF history = << >> THEN << >> ELSE << history[1] >>

\* GemmaRuntime.clear_execution_history
clear_execution_history(history) == << >>

\* a runtime with that registry, at second 0
InitRt ==
    /\ functions = RuntimeRegistry
    /\ latest = [n \in Names |-> None]
    /\ dropped = [n \in Names |-> FALSE]
    /\ function_call = None
    /\ before = << >>
    /\ outcome = None
    /\ InitExecutor
    /\ InitParser
    /\ InitConversation
    /\ InitManager
    /\ InitNormalizer
    /\ InitRuntime

\* runtime.execute(user_query), passed seconds after the call before it
RuntimeExecute(query, ready, generation, passed) ==
    /\ rt_clock + passed <= MaxSeconds
    /\ rt_clock' = rt_clock + passed
    /\ \E done \in {sdk_execute(functions, ready, generation)} :
        /\ execution_history' = runtime_execute(execution_history, query, done, rt_clock')
        /\ rt_result' = [op |-> "execute", query |-> query, found |-> execution_history,
                         done |-> done]
    /\ Len(execution_history') <= MaxExecutions
    /\ UNCHANGED <<sdk_vars, loop_vars, parser_vars, conv_vars, mgr_vars, norm_vars>>

\* runtime.get_execution_history()
GetExecutionHistory ==
    /\ rt_result' = [op |-> "get", query |-> "", found |-> execution_history,
                     done |-> execution_history]
    /\ UNCHANGED <<sdk_vars, loop_vars, parser_vars, conv_vars, mgr_vars, norm_vars,
                   execution_history, rt_clock>>

\* runtime.clear_execution_history()
ClearExecutionHistory ==
    /\ execution_history' = clear_execution_history(execution_history)
    /\ rt_result' = [op |-> "clear", query |-> "", found |-> execution_history, done |-> None]
    /\ UNCHANGED <<sdk_vars, loop_vars, parser_vars, conv_vars, mgr_vars, norm_vars, rt_clock>>

NextRt ==
    \/ \E query \in RuntimeQueries, run \in Runs, passed \in {0, 1} :
           RuntimeExecute(query, run.ready, run.generation, passed)
    \/ GetExecutionHistory
    \/ ClearExecutionHistory

RuntimeSpec == InitRt /\ [][NextRt]_vars

----------------------------------------------------------------------------
(* Vocabulary of the properties *)

\* name n has an entry in registry reg
Registered(reg, n) == \E i \in 1..Len(reg) : reg[i][1] = n

\* an entry of reg under n
BindingOf(reg, n) == reg[CHOOSE i \in 1..Len(reg) : reg[i][1] = n][2]

\* a field of a call result holds a value (is not null)
Populated(v) == v # None

\* the last operation was a dispatch of a name with a str-keyed argument map
Dispatched == outcome # None /\ WellFormed(function_call)

\* ... of a name that was not registered
DispatchedUnregistered == Dispatched /\ ~Registered(before, function_call.name)

\* ... of a name registered without an implementation
DispatchedUnbound ==
    /\ Dispatched
    /\ Registered(before, function_call.name)
    /\ BindingOf(before, function_call.name).implementation = None

\* ... of a name registered with an implementation
DispatchedBound ==
    /\ Dispatched
    /\ Registered(before, function_call.name)
    /\ BindingOf(before, function_call.name).implementation # None

\* the implementation the dispatched name was bound to
BoundImpl == BindingOf(before, function_call.name).implementation

\* the argument map fits the signature of the bound implementation
ArgumentsFit ==
    /\ impl_accepts(BoundImpl, function_call.parameters)

----------------------------------------------------------------------------
(* Properties of the dispatcher and the registry *)

\* C1 as stated: every dispatch of a name with an argument map returns a result
\* in which exactly one of result and error is populated.
C1_ExactlyOnePopulated ==
    Dispatched =>
        /\ ~outcome.raised
        /\ Populated(outcome.result.result) # Populated(outcome.result.error)

\* C1 amended: every dispatch of a name with a str-keyed argument map returns one
\* result; result and error are never both populated; error is null exactly when
\* one implementation body ran and returned normally, and result is then its
\* return value (null when the implementation returns None, so that neither
\* field is populated).
C1_NeverBothPopulated ==
    Dispatched =>
        /\ ~outcome.raised
        /\ ~(Populated(outcome.result.result) /\ Populated(outcome.result.error))
        /\ (outcome.result.error = None) <=>
               (Len(outcome.invoked) = 1 /\ ~outcome.invoked[1][1].raises)
        /\ (outcome.result.error = None) => outcome.result.result = outcome.invoked[1][1].value

\* an implementation returned None: neither field is populated
C1_Witness ==
    /\ DispatchedBound
    /\ ~outcome.raised
    /\ Len(outcome.invoked) = 1
    /\ outcome.result.result = None
    /\ outcome.result.error = None

\* C2: execute_function never raises; every request, malformed ones included,
\* yields a FunctionCallResult, with error set when the request is malformed.
C2_NeverRaises ==
    outcome # None =>
        /\ ~outcome.raised
        /\ (~WellFormed(function_call)) => Populated(outcome.result.error)

C4_UnboundNotFound ==
    DispatchedUnbound =>
        /\ ~outcome.raised
        /\ outcome.result.result = None
        /\ outcome.result.error = PyStr("Function '" \o function_call.name \o "' not found")

\* C4 amended: dispatching a registered but unbound name returns an error result
\* with no value, whose error is "No implementation provided for function
\* '<name>'"; nothing is invoked and nothing is raised.
C4_UnboundNoImplementation ==
    DispatchedUnbound =>
        /\ ~outcome.raised
        /\ outcome.result = [function_name |-> function_call.name,
                             parameters |-> function_call.parameters,
                             result |-> None,
                             error |-> PyStr("No implementation provided for function '"
                                             \o function_call.name \o "'")]
        /\ outcome.invoked = << >>

\* a schema-only binding was dispatched
C4_Witness ==
    /\ DispatchedUnbound
    /\ function_call.name = "get_time"
    /\ ~outcome.raised

\* the last operation was a dispatch in which the bound implementation failed:
\* the call did not fit its signature, or its body raised
ImplementationFailed ==
    /\ DispatchedBound
    /\ (~ArgumentsFit \/ BoundImpl.raises)

\* str(e) of that failure
FailureText ==
    IF ~ArgumentsFit THEN BindError(BoundImpl, function_call.parameters) ELSE BoundImpl.message

\* C5: when the bound implementation fails, the dispatcher returns a result with
\* error = the text of the failure and result null, raises nothing and leaves
\* the registry as it was; the next dispatch gives what it would have given on
\* the registry as it was before the failed call.
C5_FailureCaptured ==
    /\ [](ImplementationFailed =>
            /\ ~outcome.raised
            /\ outcome.result = [function_name |-> function_call.name,
                                 parameters |-> function_call.parameters,
                                 result |-> None,
                                 error |-> PyStr(FailureText)]
            /\ functions = before)
    /\ [][(ImplementationFailed /\ outcome' # None)
            => outcome' = execute_function(before, function_call')]_vars

\* the body of the bound implementation ran and raised with a non-empty text
C5_Witness ==
    /\ ImplementationFailed
    /\ Len(outcome.invoked) = 1
    /\ outcome.result.error = PyStr("boom")

\* C6: when the name is bound and the implementation returns normally, its body
\* runs exactly once with the argument map of the request, and the result
\* carries its return value, no error, and the requested name and argument map.
C6_SuccessReturnsValue ==
    (DispatchedBound /\ ArgumentsFit /\ ~BoundImpl.raises) =>
        /\ ~outcome.raised
        /\ outcome.invoked = << <<BoundImpl, function_call.parameters>> >>
        /\ outcome.result = [function_name |-> function_call.name,
                             parameters |-> function_call.parameters,
                             result |-> BoundImpl.value,
                             error |-> None]

\* an implementation ran on a non-empty argument map and returned a value
C6_Witness ==
    /\ DispatchedBound
    /\ ArgumentsFit
    /\ Len(function_call.parameters.items) > 0
    /\ outcome.result.result = PyStr("Sunny")
    /\ outcome.result.error = None

\* C7: the registry holds at most one binding per name, stored under the
\* binding's own name, and get(N) is the binding most recently registered under
\* N, schema and implementation alike.
C7_RegistrationOverwrites ==
    /\ \A i \in 1..Len(functions) :
           /\ functions[i][1] \in Names
           /\ functions[i][2].name = functions[i][1]
    /\ \A n \in Names :
           /\ Cardinality({i \in 1..Len(functions) : functions[i][1] = n}) <= 1
           /\ get(functions, n) = latest[n]

\* a bound name was registered again, with another schema and no implementation
C7_Witness ==
    /\ outcome = None
    /\ Registered(before, "get_weather")
    /\ Registered(functions, "get_weather")
    /\ BindingOf(before, "get_weather").implementation # None
    /\ BindingOf(functions, "get_weather").implementation = None
    /\ BindingOf(before, "get_weather").description # BindingOf(functions, "get_weather").description
    /\ Len(functions) = 2

----------------------------------------------------------------------------
(* The ReAct loop *)

\* an execute call has ended
Ended == calls > 0 /\ pc = "idle"

\* a turn of the current execute call has run
TurnTaken == last_turn # None

HasFinalAnswerSection(text) == Find(text, "Final Answer:", 1) # 0

\* the text after the first Final Answer: marker, trimmed
TextAfterMarker(text) ==
    Strip(SubSeq(text, Find(text, "Final Answer:", 1) + 13, Len(text)))

\* the text has no action line and no Final Answer: marker
NoMarkers(text) == ActionGroups(text) = None /\ ~HasFinalAnswerSection(text)

\* C8: every execute call issues at most max_turns model requests and, once
\* it has ended, has returned a string (it has not raised).
C8_ReturnsWithinBudget ==
    /\ requests <= max_turns
    /\ Ended => ~returned.raised

\* C8, the part the code keeps: an execute call never issues more than
\* max_turns model requests.
C8_RequestsWithinBudget == requests <= max_turns

\* C8, the part the code keeps: a pending execute call has turns left, and a
\* turn that leaves the call pending uses one of them up.
C8_PendingCallProgresses ==
    /\ [](pc = "awaiting" => turn < max_turns)
    /\ [][(pc = "awaiting" /\ pc' = "awaiting") => turn' = turn + 1]_vars

\* the text has an action line with a tool name and a non-empty argument map,
\* and no Final Answer: marker
DispatchableAction(text) ==
    LET groups == ActionGroups(text)
    IN  /\ groups # None
        /\ Strip(groups.g1) # ""
        /\ ValidParameters(ParseActionInput(Strip(groups.g2)))
        /\ Truthy(ParseActionInput(Strip(groups.g2)))
        /\ ~HasFinalAnswerSection(text)

EveryTurnDispatchable == \A i \in 1..Len(script) : DispatchableAction(script[i])

C12_ReturnsAnswerOrSentinel ==
    Ended =>
        /\ ~returned.raised
        /\ \/ returned.value = Sentinel
           \/ TurnTaken /\ last_turn.parsed.final_answer = PyStr(returned.value)

\* C12, the part the code keeps: a call that returned gave the final answer
\* of its last turn or the sentinel.
C12_ReturnedIsAnswerOrSentinel ==
    (Ended /\ ~returned.raised) =>
        \/ returned.value = Sentinel
        \/ TurnTaken /\ last_turn.parsed.final_answer = PyStr(returned.value)

\* the parsed step of the last turn has an action name, an argument map and
\* no final answer
ActionStep ==
    /\ TurnTaken
    /\ Truthy(last_turn.parsed.action)
    /\ IsDict(last_turn.parsed.action_input)
    /\ last_turn.parsed.final_answer = None

\* the last turn dispatched one call with the parsed name and argument map,
\* and the loop went on to the next turn or ran out of budget
DispatchedAndContinued ==
    /\ last_turn.dispatched
    /\ function_call = [name |-> last_turn.parsed.action.s,
                        parameters |-> last_turn.parsed.action_input]
    /\ last_turn.kind = "continue"
    /\ \/ pc = "awaiting"
       \/ requests = max_turns /\ returned = ReturnedString(Sentinel)

\* C13: a turn whose parsed step has an action name and an argument map (the
\* empty map included) and no final answer dispatches one call with that name
\* and map and continues, budget permitting.
C13_ActionDispatched == ActionStep => DispatchedAndContinued

\* C13, the part the code keeps: the same for a non-empty argument map.
C13_NonEmptyMapDispatched ==
    (ActionStep /\ Truthy(last_turn.parsed.action_input)) => DispatchedAndContinued

EndsWith(s, suffix) ==
    Len(s) >= Len(suffix) /\ SubSeq(s, Len(s) - Len(suffix) + 1, Len(s)) = suffix

\* the observation text of a call result: the error when it carries one,
\* else the stringified value
ObservationOf(call_result) ==
    IF ~is_success(call_result) THEN "Error: " \o call_result.error.s
    ELSE ResultText(call_result.result)

\* the Action entry of the last turn
ActionEntry ==
    "Action: I should use the tool " \o BT \o last_turn.parsed.action.s \o BT
        \o " with input " \o BT \o json_dumps(last_turn.parsed.action_input) \o BT

\* C14: a turn that dispatched left `Observation: <text>` as the last entry of
\* the transcript, right after the Action entry of that turn, with <text> the
\* error text when the call result carries an error and the stringified value
\* otherwise; the conversation for the next model request ends with it.
C14_ObservationRecorded ==
    (TurnTaken /\ last_turn.dispatched) =>
        /\ ~outcome.raised
        /\ Len(last_turn.history) >= 2
        /\ last_turn.history[Len(last_turn.history)] =
               "Observation: " \o ObservationOf(outcome.result)
        /\ last_turn.history[Len(last_turn.history) - 1] = ActionEntry
        /\ EndsWith(last_turn.conversation,
                    "\nObservation: " \o ObservationOf(outcome.result) \o "\nThought:")

\* C14, the part the code keeps: when the dispatch returned a result whose
\* error is absent or a non-empty text, the observation is as claimed.
C14_ObservationUnlessEmptyError ==
    (/\ TurnTaken /\ last_turn.dispatched /\ ~outcome.raised
     /\ outcome.result.error # PyStr("")) =>
        /\ Len(last_turn.history) >= 2
        /\ last_turn.history[Len(last_turn.history)] =
               "Observation: " \o ObservationOf(outcome.result)
        /\ last_turn.history[Len(last_turn.history) - 1] = ActionEntry
        /\ EndsWith(last_turn.conversation,
                    "\nObservation: " \o ObservationOf(outcome.result) \o "\nThought:")

\* C14, the part the code keeps: every Observation entry of the transcript
\* comes right after an Action entry.
C14_ObservationFollowsAction ==
    \A i \in 1..Len(conversation_history) :
        StartsAt(conversation_history[i], 1, "Observation:") =>
            i > 1 /\ StartsAt(conversation_history[i - 1], 1, "Action:")

\* C9: a turn whose model text has a Final Answer: section ends the call in
\* that turn, returning the trimmed text after the marker, with no dispatch in
\* that turn.
C9_FinalAnswerPriority ==
    (TurnTaken /\ HasFinalAnswerSection(last_turn.new_content)) =>
        /\ pc = "idle"
        /\ returned = ReturnedString(TextAfterMarker(last_turn.new_content))
        /\ ~last_turn.dispatched

----------------------------------------------------------------------------
(* parse_react_response *)

\* parse_react_response has returned
Parsed == parser_result # None

OneLine(s) == NoNewline(s, 1, Len(s))

\* the text has an action line: an action part whose payload is on one line
HasActionLine == parser_form.action # None /\ OneLine(parser_form.action.payload)

\* the payload of the action part is JSON
JsonPayload == json_loads(Strip(parser_form.action.payload)).ok

ThoughtActionStep ==
    /\ parser_result.thought = PyStr(Strip(parser_form.thought.s))
    /\ parser_result.action = PyStr(Strip(parser_form.action.name))
    /\ parser_result.action_input = json_loads(Strip(parser_form.action.payload)).value
    /\ parser_form.action.payload = "{\"a\":1}" =>
           parser_result.action_input = PyDict(<< <<PyStr("a"), PyInt(1)>> >>)
    /\ parser_result.final_answer = None

\* the step of Thought + Final Answer, as C16 gives it
ThoughtAnswerStep ==
    /\ parser_result.thought = PyStr(Strip(parser_form.thought.s))
    /\ parser_result.final_answer = PyStr(Strip(parser_form.final.s))
    /\ parser_result.action = None
    /\ parser_result.action_input = None

\* C16: a text Thought: T, Action: ... N ... P with a JSON payload P parses to
\* thought T trimmed, action N, action_input the parsed payload and no final
\* answer; a text Thought: T, Final Answer: F parses to thought T trimmed,
\* final answer F trimmed and no action.
C16_ParsedAsWritten ==
    Parsed =>
        /\ (/\ parser_form.thought # None /\ parser_form.action # None
            /\ parser_form.final = None /\ JsonPayload) => ThoughtActionStep
        /\ (/\ parser_form.thought # None /\ parser_form.action = None
            /\ parser_form.final # None) => ThoughtAnswerStep

\* C16, the part the code keeps: the same when the payload is on one line.
C16_ParsedAsWrittenOnOneLine ==
    Parsed =>
        /\ (/\ parser_form.thought # None /\ HasActionLine
            /\ parser_form.final = None /\ JsonPayload) => ThoughtActionStep
        /\ (/\ parser_form.thought # None /\ parser_form.action = None
            /\ parser_form.final # None) => ThoughtAnswerStep

\* the comma-separated segments of the payload, and those with a colon
Segments == Split(Strip(parser_form.action.payload), ",")
WithColon == {i \in 1..Len(Segments) : Find(Segments[i], ":", 1) # 0}
KeyOf(seg) == Strip(SubSeq(seg, 1, Find(seg, ":", 1) - 1))
ValueOf(seg) == Strip(SubSeq(seg, Find(seg, ":", 1) + 1, Len(seg)))
LastWithKey(key) == Max({i \in WithColon : KeyOf(Segments[i]) = key})

\* C17: for an action line whose payload is not JSON, action_input is a flat
\* map of strings: one key per segment with a colon (the trimmed text before
\* its first colon) with the trimmed text after that colon as its value (the
\* last such segment's, when a key repeats); segments without a colon leave
\* nothing; and the parse returns.
C17_FallbackMap ==
    (Parsed /\ HasActionLine /\ ~JsonPayload) =>
        LET input == parser_result.action_input
        IN  /\ IsDict(input)
            /\ \A j \in 1..Len(input.items) :
                  /\ input.items[j][1].t = "str"
                  /\ input.items[j][2].t = "str"
                  /\ \E i \in WithColon : input.items[j][1].s = KeyOf(Segments[i])
            /\ \A i \in WithColon :
                  DictGet(input.items, PyStr(KeyOf(Segments[i])))
                      = PyStr(ValueOf(Segments[LastWithKey(KeyOf(Segments[i]))]))
            /\ Len(input.items) = Cardinality({KeyOf(Segments[i]) : i \in WithColon})
            /\ parser_form.action.payload = "a:1, b:2" =>
                   input = PyDict(<< <<PyStr("a"), PyStr("1")>>, <<PyStr("b"), PyStr("2")>> >>)

C17_Witness ==
    /\ Parsed
    /\ parser_form.action # None
    /\ parser_form.action.payload = " a : 1 ,junk, a: x:y ,"
    /\ parser_result.action_input = PyDict(<< <<PyStr("a"), PyStr("x:y")>> >>)

----------------------------------------------------------------------------
(* Conversation *)

\* conversations a and b agree on the system text, the number and order of the
\* messages, and every field of every message
SameConversation(a, b) ==
    /\ a.system_prompt = b.system_prompt
    /\ Len(a.messages) = Len(b.messages)
    /\ \A i \in 1..Len(a.messages) :
          /\ a.messages[i].role = b.messages[i].role
          /\ a.messages[i].content = b.messages[i].content
          /\ a.messages[i].function_call = b.messages[i].function_call
          /\ a.messages[i].function_result = b.messages[i].function_result
          /\ a.messages[i].timestamp = b.messages[i].timestamp

\* v holds only what JSON has a literal for: no tuple at any depth
RECURSIVE JsonNative(_)
JsonNative(v) ==
    CASE v.t = "tuple" -> FALSE
      [] v.t = "list" -> \A k \in 1..Len(v.elems) : JsonNative(v.elems[k])
      [] v.t = "dict" -> \A k \in 1..Len(v.items) :
                             /\ v.items[k][1].t = "str"
                             /\ JsonNative(v.items[k][2])
      [] OTHER -> TRUE

\* every payload of every message of c is JsonNative
NativePayloads(c) ==
    \A i \in 1..Len(c.messages) :
        /\ JsonNative(c.messages[i].function_call)
        /\ JsonNative(c.messages[i].function_result)

\* C18: for every conversation reached by add_user_message, add_assistant_message,
\* add_function_result and clear, both from_dict(to_dict(c)) and
\* from_json(to_json(c)) have the same system text, the same messages in the
\* same order, and for each message the same role, content, function_call,
\* function_result and timestamp
C18_RoundTrip ==
    restored # None =>
        /\ SameConversation(conv, restored.from_dict)
        /\ SameConversation(conv, restored.from_json)

\* the part of C18 the code keeps: the dict round trip is lossless for every
\* conversation, the JSON round trip for those with JSON-native payloads
C18_RoundTripOfNativePayloads ==
    restored # None =>
        /\ SameConversation(conv, restored.from_dict)
        /\ NativePayloads(conv) => SameConversation(conv, restored.from_json)

\* a round trip of a conversation with messages and a structured result
C18_NativeRoundTripDone ==
    /\ restored # None
    /\ Len(conv.messages) = MaxMessages
    /\ NativePayloads(conv)
    /\ \E i \in 1..Len(conv.messages) :
          /\ conv.messages[i].function_result # None
          /\ DictGet(conv.messages[i].function_result.items, PyStr("result")).t = "dict"

\* the role of the message that add operation op makes
RoleOf(op) ==
    CASE op = "add_user_message" -> "user"
      [] op = "add_assistant_message" -> "assistant"
      [] op = "add_function_result" -> "function"

\* message m is the one that the logged add operation e made
MadeBy(m, e) ==
    /\ m.role = RoleOf(e.op)
    /\ e.op = "add_user_message" =>
          m.content = e.content /\ m.function_call = None /\ m.function_result = None
    /\ e.op = "add_assistant_message" =>
          m.content = e.content /\ m.function_call = e.function_call /\ m.function_result = None
    /\ e.op = "add_function_result" =>
          /\ m.function_call = None
          /\ m.function_result # None
          /\ DictGet(m.function_result.items, PyStr("function_name"))
                = PyStr(e.function_result.function_name)

\* the messages are the add operations since creation or the last clear, in order
MessagesFollowLog ==
    /\ Len(conv.messages) = Len(conv_log)
    /\ \A i \in 1..Len(conv_log) : MadeBy(conv.messages[i], conv_log[i])

\* a step that is one add operation
AddStep == conv_log' # conv_log /\ conv_log' # << >>

\* the step added exactly one message at the end, of the role of its operation,
\* and left the earlier messages and the system text as they were
AppendedOne ==
    /\ Len(conv'.messages) = Len(conv.messages) + 1
    /\ SubSeq(conv'.messages, 1, Len(conv.messages)) = conv.messages
    /\ conv'.messages[Len(conv'.messages)].role = RoleOf(conv_log'[Len(conv_log')].op)
    /\ conv'.system_prompt = conv.system_prompt

\* C19: each of add_user_message, add_assistant_message and add_function_result
\* adds exactly one message at the end with the matching role and leaves every
\* earlier message and the system text unchanged, so the message list always
\* equals the sequence of add operations since creation or the last clear
C19_AppendOnly == [](MessagesFollowLog) /\ [][AddStep => AppendedOne]_vars

\* a function message first and an assistant message last, on a conversation
\* created with a system text of its own
C19_Witness ==
    /\ Len(conv.messages) = MaxMessages
    /\ conv.messages[1].role = "function"
    /\ conv.messages[MaxMessages].role = "assistant"
    /\ conv.system_prompt = "Answer briefly."

\* message m stores result r field by field
StoresResult(m, r) ==
    /\ m.function_result # None
    /\ m.function_result.items =
          << <<PyStr("function_name"), PyStr(r.function_name)>>,
             <<PyStr("parameters"), r.parameters>>,
             <<PyStr("result"), r.result>>,
             <<PyStr("error"), r.error>> >>

\* the content the claim gives the message of result r
ClaimedContent(r) ==
    IF ~is_success(r)
    THEN "Function " \o r.function_name \o " error: " \o r.error.s
    ELSE "Function " \o r.function_name \o " returned: " \o PyFormat(r.result)

\* the i-th message was made by add_function_result
FunctionResultAt(i) == conv_log[i].op = "add_function_result"

\* C20: add_function_result appends a function-role message that stores the
\* structured call result unchanged and whose content is "Function X error: <error>"
\* when the result carries an error and "Function X returned: <value>" otherwise,
\* X being the function name of the result
C20_FunctionMessage ==
    \A i \in 1..Len(conv_log) :
        FunctionResultAt(i) =>
            /\ conv.messages[i].role = "function"
            /\ StoresResult(conv.messages[i], conv_log[i].function_result)
            /\ conv.messages[i].content = ClaimedContent(conv_log[i].function_result)

\* the part of C20 the code keeps: the message is as claimed unless the error
\* of the result is the empty text
C20_FunctionMessageUnlessEmptyError ==
    \A i \in 1..Len(conv_log) :
        FunctionResultAt(i) =>
            /\ conv.messages[i].role = "function"
            /\ StoresResult(conv.messages[i], conv_log[i].function_result)
            /\ conv_log[i].function_result.error # PyStr("") =>
                  conv.messages[i].content = ClaimedContent(conv_log[i].function_result)

\* a result with an error text and a result with a value were both recorded
C20_FunctionMessagesRecorded ==
    /\ Len(conv_log) = MaxMessages
    /\ FunctionResultAt(1) /\ conv_log[1].function_result.error = PyStr("boom")
    /\ FunctionResultAt(MaxMessages) /\ conv_log[MaxMessages].function_result.error = None

----------------------------------------------------------------------------
(* ConversationManager *)

\* the ids created and not deleted since
LiveIds == {id \in ConversationIds : created[id] # None}

\* sequence q lists exactly the members of set S, each once
ListsExactly(q, S) ==
    /\ {q[i] : i \in 1..Len(q)} = S
    /\ \A i, j \in 1..Len(q) : q[i] = q[j] => i = j

\* the last manager call was op
LastCall(op) == mgr_result # None /\ mgr_result.op = op

\* C21: after any sequence of create_conversation and delete_conversation calls,
\* get_all_conversation_ids returns exactly the ids created and not deleted
\* since; get_conversation(id) returns the conversation object created for
\* that id, so that messages appended through it are visible on retrieval, and
\* None for any other id; delete_conversation of an id that is not present
\* changes nothing and does not raise
C21_ManagerTracksIds ==
    /\ mgr_result # None => ~mgr_result.raised
    /\ LastCall("get_all_conversation_ids") => ListsExactly(mgr_result.value.elems, LiveIds)
    /\ LastCall("get_conversation") =>
          /\ mgr_result.value = created[mgr_result.id]
          /\ mgr_result.value # None => mgr_result.value.ref \in 1..Len(heap)
    /\ LastCall("delete_conversation") /\ IndexOf(mgr_result.found, mgr_result.id) = 0 =>
          conversations = mgr_result.found
    /\ \A id \in ConversationIds : DictGet(conversations, id) = created[id]

\* a conversation retrieved with the message appended through its reference,
\* while the other id has been created and deleted
C21_Witness ==
    /\ LastCall("get_conversation")
    /\ mgr_result.value # None
    /\ heap[mgr_result.value.ref].messages # << >>
    /\ Len(heap) >= 2
    /\ \E id \in ConversationIds : created[id] = None

\* a delete of an id that was not present
C21_DeleteAbsent ==
    /\ LastCall("delete_conversation")
    /\ IndexOf(mgr_result.found, mgr_result.id) = 0
    /\ conversations # << >>

----------------------------------------------------------------------------
(* The converters *)

\* the conversion has been made and returned a list
Normalized_ == norm_result # None /\ ~norm_result.raised

\* the schemas of the returned list
Schemas == IF Normalized_ THEN norm_result.value.elems ELSE << >>

\* the properties of a schema, as <<name, definition>> pairs, and its required list
PropertiesOf(schema) == GetOr(GetOr(schema, "parameters", None), "properties", None).items
RequiredOf(schema) == GetOr(GetOr(schema, "parameters", None), "required", None).elems

\* every name in the required list of the schema is a key of its properties
RequiredAreProperties(schema) ==
    \A i \in 1..Len(RequiredOf(schema)) : IndexOf(PropertiesOf(schema), RequiredOf(schema)[i]) # 0

\* C22: in every schema produced by any of the three entry points, every name
\* in "required" is a key of "properties", also when an operation has a JSON
\* body schema whose required list is merged in
C22_RequiredAreProperties ==
    \A i \in 1..Len(Schemas) : RequiredAreProperties(Schemas[i])

\* the JSON body schema of an operation ({} when it has none)
BodySchema(operation) ==
    GetOr(GetOr(GetOr(GetOr(operation, "requestBody", PyDict(<< >>)),
                      "content", PyDict(<< >>)),
                "application/json", PyDict(<< >>)),
          "schema", PyDict(<< >>))

\* the names a body schema requires without declaring them as properties
UndeclaredIn(schema) ==
    LET required == GetOr(schema, "required", PyList(<< >>)).elems
    IN  {required[i] : i \in {k \in 1..Len(required) :
                                ~Has(GetOr(schema, "properties", PyDict(<< >>)), required[k].s)}}

\* those names, for the operation of the document
UndeclaredBodyNames ==
    UNION {UndeclaredIn(BodySchema(operation)) :
             operation \in {o \in Operations :
                               norm_doc = OpenAPI(<< <<"/pets/{id}", Obj(<< <<"put", o>> >>)>> >>)}}

\* the part of C22 the code keeps: a required name that is no property is one
\* that the body schema of the operation requires and does not declare
C22_RequiredUnlessUndeclaredInBody ==
    \A i \in 1..Len(Schemas) :
        \A k \in 1..Len(RequiredOf(Schemas[i])) :
            \/ IndexOf(PropertiesOf(Schemas[i]), RequiredOf(Schemas[i])[k]) # 0
            \/ norm_kind = "openapi" /\ RequiredOf(Schemas[i])[k] \in UndeclaredBodyNames

\* schemas with required parameters came out of each entry point
C22_RequiredProduced ==
    /\ Schemas # << >>
    /\ \A i \in 1..Len(Schemas) : RequiredOf(Schemas[i]) # << >>

\* every entry of the list has a "name"
AllNamed(params) == \A i \in 1..Len(params) : Has(params[i], "name")

\* the document has the shape of its kind: a dict with "endpoints" (flat,
\* image) or "paths" (structured), and a name on every parameter entry
ExpectedShape ==
    /\ IsDict(norm_doc)
    /\ norm_kind \in {"rest", "image"} =>
          /\ Has(norm_doc, "endpoints")
          /\ \A i \in 1..Len(GetOr(norm_doc, "endpoints", None).elems) :
                AllNamed(GetOr(GetOr(norm_doc, "endpoints", None).elems[i],
                               "parameters", PyList(<< >>)).elems)
    /\ norm_kind = "openapi" =>
          /\ Has(norm_doc, "paths")
          /\ \A i \in 1..Len(GetOr(norm_doc, "paths", None).items) :
                LET path_item == GetOr(norm_doc, "paths", None).items[i][2]
                IN  \A j \in 1..Len(path_item.items) :
                        path_item.items[j][1].s \in Methods =>
                            AllNamed(GetOr(path_item.items[j][2], "parameters", PyList(<< >>)).elems)

\* C23: a document that does not have the expected shape for its kind (no
\* "endpoints" list, no "paths", a parameter entry without a name) is reported
\* to the caller as a failure; no partial or empty schema list is returned for it
C23_MalformedFails ==
    norm_result # None /\ ~ExpectedShape => norm_result.raised

\* the part of C23 the code keeps: a parameter entry without a name, or a
\* document that is no dict, makes the whole conversion fail
C23_NamelessParameterFails ==
    norm_result # None =>
        (norm_result.raised <=>
            ~IsDict(norm_doc) \/ (~ExpectedShape /\ Has(norm_doc, "endpoints") /\ norm_kind # "openapi")
                              \/ (~ExpectedShape /\ Has(norm_doc, "paths") /\ norm_kind = "openapi"))

\* a conversion that failed at the second endpoint, after a first one that converts
C23_FailedAfterFirst ==
    /\ norm_result # None /\ norm_result.raised
    /\ norm_kind = "rest"
    /\ IsDict(norm_doc)
    /\ Len(GetOr(norm_doc, "endpoints", PyList(<< >>)).elems) = 2
    /\ GetOr(norm_doc, "endpoints", None).elems[1] = PlainEndpoint

\* the endpoints of a flat or image document
EndpointsOf(doc) == GetOr(doc, "endpoints", PyList(<< >>)).elems

\* the declared parameters of an endpoint
DeclaredOf(endpoint) == GetOr(endpoint, "parameters", PyList(<< >>)).elems

\* the keys of a dict value, as a set of strings
KeySet(d) == {d.items[i][1].s : i \in 1..Len(d.items)}

\* definition def copies type, description and enum of param as declared and
\* holds nothing else
CopiedAsDeclared(def, param) ==
    /\ KeySet(def) = {"type"} \cup (KeySet(param) \cap {"description", "enum"})
    /\ Has(param, "type") => GetOr(def, "type", None) = GetOr(param, "type", None)
    /\ Has(param, "description") => GetOr(def, "description", None) = GetOr(param, "description", None)
    /\ Has(param, "enum") => GetOr(def, "enum", None) = GetOr(param, "enum", None)

\* the names of the entries of params that are marked required, in order
MarkedRequired(params) ==
    LET marked == SelectSeq(params, LAMBDA param : GetOr(param, "required", PyBool(FALSE)) = PyBool(TRUE))
    IN  [i \in 1..Len(marked) |-> GetOr(marked[i], "name", None)]

Flagged(endpoint) == GetOr(endpoint, "image_processing", PyBool(FALSE)) = PyBool(TRUE)

\* def is the object-typed parameter with the sub-fields resize: boolean,
\* max_size: integer, format: enum(jpeg, png, webp)
IsProcessingOptions(def) ==
    /\ GetOr(def, "type", None) = PyStr("object")
    /\ Has(def, "properties")
    /\ KeySet(GetOr(def, "properties", None)) = {"resize", "max_size", "format"}
    /\ GetOr(GetOr(GetOr(def, "properties", None), "resize", None), "type", None) = PyStr("boolean")
    /\ GetOr(GetOr(GetOr(def, "properties", None), "max_size", None), "type", None) = PyStr("integer")
    /\ GetOr(GetOr(GetOr(def, "properties", None), "format", None), "enum", None)
          = PyList(<< PyStr("jpeg"), PyStr("png"), PyStr("webp") >>)

\* the property of the schema named name (None when it has none)
PropertyOf(schema, name) == DictGet(PropertiesOf(schema), name)

----------------------------------------------------------------------------
(* The registry: remove, clear, reads *)

\* what a remove(name) step leaves: no binding under name, every other binding
\* as it was, and the registry as it was when name had no binding
RemoveEffect(name) ==
    /\ get(functions', name) = None
    /\ \A n \in CallNames \ {name} : get(functions', n) = get(functions, n)
    /\ get(functions, name) = None => functions' = functions

\* C26: remove(N) makes get(N) absent and leaves every other binding unchanged;
\* remove of a name that is not registered changes nothing; clear leaves the
\* registry empty; get of a name that is not registered is absent (None)
C26_RemoveAndClear ==
    /\ [][\A name \in CallNames : Remove(name) => RemoveEffect(name)]_vars
    /\ [][Clear => functions' = << >> /\ \A n \in CallNames : get(functions', n) = None]_vars
    /\ [](\A n \in Names : get(functions, n) = latest[n])
    /\ [](get(functions, Unregistered) = None)

\* a remove took one of two bindings away
C26_Witness ==
    /\ function_call = None
    /\ Len(before) = 2
    /\ Len(functions) = 1
    /\ functions[1] = before[2]

\* get_all and get_all_dicts list the binding that get returns for each
\* registered name, once, in the order of the registry
ReadsAgree ==
    /\ Len(get_all(functions)) = Len(functions)
    /\ Len(get_all_dicts(functions)) = Len(functions)
    /\ \A i \in 1..Len(functions) :
          /\ get_all(functions)[i] = get(functions, functions[i][1])
          /\ get_all_dicts(functions)[i] = to_dict(get(functions, functions[i][1]))
    /\ \A i, j \in 1..Len(functions) : functions[i][1] = functions[j][1] => i = j

\* C27: get, get_all, get_all_dicts, execute_function and a whole ReAct loop
\* invocation leave the registered names and every binding unchanged, for
\* every outcome of a dispatch (success, not found, failed implementation),
\* and get_all returns the same bindings in the same order as long as nothing
\* is registered, removed or cleared
C27_ReadsDoNotWrite ==
    /\ [](outcome # None => functions = before)
    /\ [][pc = "awaiting" \/ pc' = "awaiting" => functions' = functions]_vars
    /\ [](ReadsAgree)
    /\ [][functions' = functions => get_all(functions') = get_all(functions)]_vars

\* the implementation of the second dispatch of an invocation ran and failed
C27_Witness ==
    /\ outcome # None
    /\ ~outcome.raised
    /\ outcome.invoked # << >>
    /\ outcome.result.error # None
    /\ requests = MaxTurns
    /\ dispatches = MaxTurns

----------------------------------------------------------------------------
(* The registry: re-registration without an implementation *)

\* the last dispatch was of name n, with both keys and valid parameters
DispatchedName(n) == Dispatched /\ function_call.name = n

\* the dispatch of n returned the error result of a binding that has no implementation, and ran nothing
SchemaOnlyError(n) ==
    /\ ~outcome.raised
    /\ outcome.invoked = << >>
    /\ outcome.result.function_name = n
    /\ outcome.result.result = None
    /\ outcome.result.error = PyStr(NoImplementationMessage(n))

\* C28: a name that had an implementation and is registered again with none
\* supplied (register, register_from_dict or register_multiple) is bound to the
\* new definition alone, which has no implementation; a dispatch of the name
\* after that returns the error result "No implementation provided ..." and
\* runs no implementation, the old one included.
C28_ReRegistrationUnbinds ==
    \A n \in Names :
        dropped[n] =>
            /\ get(functions, n) = latest[n]
            /\ get(functions, n).implementation = None
            /\ DispatchedName(n) => SchemaOnlyError(n)

\* a name lost its implementation to a re-registration and was then dispatched
C28_Witness ==
    \E n \in Names : dropped[n] /\ DispatchedName(n) /\ SchemaOnlyError(n)

----------------------------------------------------------------------------
(* The loop: model requests and dispatches take turns *)

\* model requests issued by the current execute call: the ones answered and
\* the one the call is waiting on
Issued == requests + (IF pc = "awaiting" THEN 1 ELSE 0)

\* the step consumes the answer to the pending model request
Answered == pc = "awaiting" /\ requests' = requests + 1

\* the step dispatches the action parsed from the answer it consumed, once
DispatchedInTurn ==
    /\ dispatches' = dispatches + 1
    /\ last_turn'.dispatched
    /\ outcome' # None
    /\ function_call' = [name |-> last_turn'.parsed.action.s,
                         parameters |-> last_turn'.parsed.action_input]
    /\ last_turn'.parsed = parse_react_response(last_turn'.new_content)

\* the request the step issues is made of the answer it consumed followed by
\* the observation of the dispatch, which has returned
IssuedAfterObservation ==
    LET response == conversation \o script'[Len(script')]
        opening  == "\nObservation: "
    IN  /\ ~outcome'.raised
        /\ Len(conversation') >= Len(response) + Len(opening) + Len("\nThought:")
        /\ SubSeq(conversation', 1, Len(response)) = response
        /\ SubSeq(conversation', Len(response) + 1, Len(response) + Len(opening)) = opening
        /\ EndsWith(conversation', "\nThought:")

\* C29: within one execute call a dispatch takes place only in a step that
\* consumes a model answer, at most once in it, and is of the action parsed
\* from that answer; a further model request is issued only by a step that
\* dispatched, after the dispatch returned and with its observation at the
\* end of the prompt; dispatches never outnumber the answered requests, and
\* the requests issued never outnumber the turn budget.
C29_RequestsAndDispatchesAlternate ==
    /\ [](calls > 0 => dispatches <= requests /\ Issued <= max_turns)
    /\ [][pc = "awaiting" => Answered /\ dispatches' \in {dispatches, dispatches + 1}]_vars
    /\ [][dispatches' # dispatches =>
              \/ pc = "idle" /\ dispatches' = 0 /\ requests' = 0
              \/ Answered /\ DispatchedInTurn]_vars
    /\ [][pc = "awaiting" /\ pc' = "awaiting" => DispatchedInTurn /\ IssuedAfterObservation]_vars

\* an execute call spent a budget of several turns: every request answered,
\* every answer followed by a dispatch
C29_Witness ==
    /\ pc = "idle" /\ calls > 0 /\ max_turns >= 2
    /\ requests = max_turns /\ dispatches = requests
    /\ outcome # None /\ ~outcome.raised

----------------------------------------------------------------------------
(* The loop: what a turn parses *)

\* the text the model added in the last turn
LastText == script[Len(script)]

\* the conversation the last turn's request was made with: what precedes
\* the added text in the response
LastPrompt ==
    LET response == IF last_turn.kind = "continue"
                    THEN SubSeq(last_turn.conversation, 1,
                                Len(last_turn.conversation)
                                    - Len("\nObservation: " \o ObservationOf(outcome.result)
                                          \o "\nThought:"))
                    ELSE last_turn.conversation
    IN  SubSeq(response, 1, Len(response) - Len(LastText))

\* C30: the step a turn acts on is the parse of the text the model added in
\* that turn and of nothing else: the action dispatched and the final answer
\* returned are the ones of that text, and a turn whose text names neither
\* ends the call without a dispatch, whatever the prompt, the earlier turns
\* and the earlier observations contain.
C30_OnlyNewTextParsed ==
    TurnTaken =>
        LET step == parse_react_response(LastText)
        IN  /\ last_turn.new_content = LastText
            /\ last_turn.parsed = step
            /\ last_turn.dispatched =>
                   /\ Truthy(step.action)
                   /\ function_call = [name |-> step.action.s, parameters |-> step.action_input]
            /\ last_turn.kind = "final" =>
                   /\ Truthy(step.final_answer)
                   /\ returned = ReturnedString(step.final_answer.s)
            /\ (~Truthy(step.final_answer) /\ ~(Truthy(step.action) /\ Truthy(step.action_input))) =>
                   /\ last_turn.kind = "break"
                   /\ ~last_turn.dispatched
                   /\ returned = ReturnedString(Sentinel)

\* a second turn whose text names no action and no final answer ended the
\* call, while the conversation it was asked with carried the markers of the
\* instructions, the Action line of the first turn and an observation with
\* an Action line and a Final Answer line in it
C30_Witness ==
    /\ TurnTaken /\ requests = 2 /\ dispatches = 1
    /\ LastText = TextNone
    /\ last_turn.kind = "break"
    /\ returned = ReturnedString(Sentinel)
    /\ script[1] = TextActionTime
    /\ Find(LastPrompt, "Observation: 12:00\nAction: I should use the tool", 1) # 0
    /\ Find(LastPrompt, "Final Answer: noon\nThought:", 1) # 0
    /\ Find(LastPrompt, "Final Answer: The final response", 1) # 0
    /\ Find(LastPrompt, TextActionTime, 1) # 0
    /\ parse_react_response(LastPrompt \o LastText).final_answer # None
    /\ EndsWith(LastPrompt, "\nThought:")

----------------------------------------------------------------------------
(* The prompt of an execute call *)

\* what opens the prompt, up to the tool lines
PromptOpening ==
    "You are an AI assistant that helps users by using tools.\n"
    \o "You have access to the following tools:\n\n"

\* what follows the tool lines
FormatHeading == "\n\nUse the following format:\n"

\* what closes the fixed instructions
PromptBegin == "\nBegin!\n"

\* the tool lines of a prompt: what stands between the opening and the format heading
ToolSection(prompt) ==
    SubSeq(prompt, Len(PromptOpening) + 1, Find(prompt, FormatHeading, 1) - 1)

\* the lines of the tool section, each without its line break
ToolLines(prompt) ==
    LET section == ToolSection(prompt)
    IN  IF section = "" THEN << >>
        ELSE Split(SubSeq(section, 1, Len(section) - 1), "\n")

\* name(param: type, ...): description for a registered binding, as the
\* prompt marks it up
SignatureOf(binding) ==
    LET props == binding.parameters.properties
        shown == [k \in 1..Len(props) |->
                     props[k][1] \o ": "
                     \o (IF "type" \in DOMAIN props[k][2] THEN props[k][2].type ELSE "string")]
    IN  "* " \o BT \o binding.name \o "(" \o Join(shown, ", ") \o ")" \o BT
        \o ": " \o binding.description

\* parts stand in s one after the other from position at on, each after a
\* line break; the position after the last one, or 0 when they do not
RECURSIVE EntriesEnd(_, _, _)
EntriesEnd(s, at, parts) ==
    IF parts = << >> THEN at
    ELSE IF StartsAt(s, at, "\n" \o Head(parts))
    THEN EntriesEnd(s, at + 1 + Len(Head(parts)), Tail(parts))
    ELSE 0

\* prompt is made of the opening, one signature line for every binding of
\* fns and no other line, the fixed instructions, the entries of history in
\* order and the query with the cue for the first thought
PromptShape(prompt, fns, history, query) ==
    LET lines  == ToolLines(prompt)
        begin  == Find(prompt, PromptBegin, 1)
        after  == begin + Len(PromptBegin)
        ending == "\nUser query: " \o query \o "\nThought:"
    IN  /\ StartsAt(prompt, 1, PromptOpening)
        /\ Find(prompt, FormatHeading, 1) # 0
        /\ Len(lines) = Len(fns)
        /\ \A k \in 1..Len(lines) : \E i \in 1..Len(fns) : lines[k] = SignatureOf(fns[i][2])
        /\ \A i \in 1..Len(fns) :
               Cardinality({k \in 1..Len(lines) :
                               StartsAt(lines[k], 1, "* " \o BT \o fns[i][1] \o "(")}) = 1
        /\ begin > Find(prompt, FormatHeading, 1)
        /\ EntriesEnd(prompt, after, history) # 0
        /\ SubSeq(prompt, EntriesEnd(prompt, after, history), Len(prompt)) = ending

\* the step is the start of an execute call
CallStarts == calls' = calls + 1

\* C31: the prompt an execute call builds holds one signature line
\* name(param: type, ...): description for every binding registered when the
\* call starts, a missing type shown as string, and no line for any other
\* name; after the fixed instructions come the transcript entries in their
\* order and, last, the user query.
C31_PromptListsRegistry ==
    [][CallStarts => PromptShape(conversation', functions, conversation_history, user_query')]_vars

\* a call started over a transcript that holds an observation, with one
\* binding registered and the other removed
C31_Witness ==
    /\ calls = 2 /\ requests = 0 /\ pc = "awaiting"
    /\ Len(functions) = 1 /\ Len(before) = 2
    /\ Len(conversation_history) >= 3
    /\ PromptShape(conversation, functions, conversation_history, user_query)
    /\ \E k \in 1..Len(conversation_history) :
           StartsAt(conversation_history[k], 1, "Observation: 12:00")

----------------------------------------------------------------------------
(* The transcript over several execute calls *)

\* the prompt an executor that has recorded nothing builds for query over registry fns
FreshPrompt(fns, query) ==
    LET tools == Concat([k \in 1..Len(fns) |-> SignatureOf(fns[k][2]) \o "\n"])
    IN  SystemPrompt(tools) \o "\nUser query: " \o query \o "\nThought:"

\* list a opens list b
Opens(a, b) == Len(a) <= Len(b) /\ SubSeq(b, 1, Len(a)) = a

\* every entry of the transcript stands in the prompt, after a line break
EntriesInPrompt(history, prompt) ==
    \A k \in 1..Len(history) : Find(prompt, "\n" \o history[k] \o "\n", 1) # 0

\* C32: the transcript belongs to the executor and outlives the call that
\* wrote it: a call only adds entries at its end, nothing between calls
\* changes it but clear_conversation, which empties it, and the next call
\* starts with every entry in its prompt; each call counts its turns and
\* requests from zero against its own budget; a call that starts on an
\* empty transcript, cleared or never written, builds the prompt of a new
\* executor over the same registry.
C32_TranscriptPersistsUntilCleared ==
    /\ [][pc = "awaiting" => Opens(conversation_history, conversation_history')]_vars
    /\ [][CallStarts =>
              /\ conversation_history' = conversation_history
              /\ EntriesInPrompt(conversation_history, conversation')
              /\ turn' = 0 /\ requests' = 0 /\ dispatches' = 0
              /\ pc' = (IF max_turns' > 0 THEN "awaiting" ELSE "idle")
              /\ conversation_history = << >> =>
                     conversation' = FreshPrompt(functions, user_query')]_vars
    /\ [][(pc = "idle" /\ ~CallStarts /\ conversation_history' # conversation_history) =>
              conversation_history' = << >>]_vars
    /\ [](calls > 0 => turn <= max_turns /\ requests <= max_turns)

\* a second call started with the prompt of a new executor although the
\* first call had dispatched and so written entries: they were cleared
C32_Witness ==
    /\ calls = 2 /\ requests = 0 /\ pc = "awaiting"
    /\ outcome # None /\ ~outcome.raised
    /\ functions # << >>
    /\ conversation_history = << >>
    /\ conversation = FreshPrompt(functions, user_query)

\* a second call spent its whole budget of two turns on a transcript that
\* already held the entries of two turns of the first call
C32_SecondCallFullBudget ==
    /\ calls = 2 /\ max_turns = 2 /\ requests = 2 /\ dispatches = 2
    /\ Len(conversation_history) >= 12

----------------------------------------------------------------------------
(* The structured converter: parameter types *)

\* the types a function schema may name
FixedTypes == {"string", "integer", "number", "boolean", "array", "object"}

\* the type a declaration stands for: its own when it is one of the fixed
\* types, string when it is another one or is missing
Degraded(declaration) ==
    LET declared == GetOr(declaration, "type", None)
    IN  IF declared # None /\ declared.t = "str" /\ declared.s \in FixedTypes
        THEN declared ELSE PyStr("string")

\* the type of the property and, when it has items, their type are fixed types
TypesFixed(definition) ==
    /\ Has(definition, "type")
    /\ GetOr(definition, "type", None).t = "str"
    /\ GetOr(definition, "type", None).s \in FixedTypes
    /\ Has(definition, "items") =>
           /\ Has(GetOr(definition, "items", None), "type")
           /\ GetOr(GetOr(definition, "items", None), "type", None).t = "str"
           /\ GetOr(GetOr(definition, "items", None), "type", None).s \in FixedTypes

\* the one operation of the document, when it is a document of one put operation
OperationOf(doc) ==
    LET paths == GetOr(doc, "paths", PyDict(<< >>))
        item  == GetOr(paths, "/pets/{id}", PyDict(<< >>))
    IN  GetOr(item, "put", None)

\* the declaration the operation makes of name: the property of its JSON
\* body schema when there is one, else its parameter of that name
DeclarationOf(operation, name) ==
    LET props  == GetOr(BodySchema(operation), "properties", PyDict(<< >>))
        params == GetOr(operation, "parameters", PyList(<< >>)).elems
    IN  IF IndexOf(props.items, name) # 0 THEN DictGet(props.items, name)
        ELSE params[CHOOSE k \in 1..Len(params) : GetOr(params[k], "name", None) = name]

\* the output definition carries the type its declaration stands for
TypeDegraded(operation, name, definition) ==
    GetOr(definition, "type", None) = Degraded(DeclarationOf(operation, name))

\* the items of an array declaration come out with the type they stand for
ItemsDegraded(operation, name, definition) ==
    LET declaration == DeclarationOf(operation, name)
    IN  (Degraded(declaration) = PyStr("array") /\ Has(declaration, "items")) =>
            /\ Has(definition, "items")
            /\ GetOr(GetOr(definition, "items", None), "type", None)
                   = Degraded(GetOr(declaration, "items", None))

\* the items of an array declaration come out with their type when it is a
\* fixed type or missing, and are left out when it is another one
ItemsDegradedOrDropped(operation, name, definition) ==
    LET declaration == DeclarationOf(operation, name)
        items       == GetOr(declaration, "items", PyDict(<< >>))
        item_type   == GetOr(items, "type", PyStr("string"))
    IN  (Degraded(declaration) = PyStr("array") /\ Has(declaration, "items")) =>
            IF item_type.t = "str" /\ item_type.s \in FixedTypes
            THEN /\ Has(definition, "items")
                 /\ GetOr(GetOr(definition, "items", None), "type", None) = item_type
            ELSE ~Has(definition, "items")

\* the conversion of a structured document returned
StructuredDone == norm_kind = "openapi" /\ Normalized_

\* C33: in every schema the structured converter returns, the type of every
\* parameter and of the items of every array parameter is one of string,
\* integer, number, boolean, array, object; a declared type that is none of
\* these, or a missing one, has become string, for parameters and for items.
C33_TypesDegradeToString ==
    StructuredDone =>
        /\ \A i \in 1..Len(Schemas) : \A k \in 1..Len(PropertiesOf(Schemas[i])) :
               TypesFixed(PropertiesOf(Schemas[i])[k][2])
        /\ (Len(Schemas) = 1 /\ OperationOf(norm_doc) # None) =>
               \A k \in 1..Len(PropertiesOf(Schemas[1])) :
                   /\ TypeDegraded(OperationOf(norm_doc), PropertiesOf(Schemas[1])[k][1],
                                   PropertiesOf(Schemas[1])[k][2])
                   /\ ItemsDegraded(OperationOf(norm_doc), PropertiesOf(Schemas[1])[k][1],
                                    PropertiesOf(Schemas[1])[k][2])

\* the part of C33 the code keeps: every type and item type that comes out is
\* a fixed type, parameter types degrade to string, and array items come out
\* with their type when it is a fixed type or missing and not at all otherwise
C33_TypesFixedItemsDropped ==
    StructuredDone =>
        /\ \A i \in 1..Len(Schemas) : \A k \in 1..Len(PropertiesOf(Schemas[i])) :
               TypesFixed(PropertiesOf(Schemas[i])[k][2])
        /\ (Len(Schemas) = 1 /\ OperationOf(norm_doc) # None) =>
               \A k \in 1..Len(PropertiesOf(Schemas[1])) :
                   /\ TypeDegraded(OperationOf(norm_doc), PropertiesOf(Schemas[1])[k][1],
                                   PropertiesOf(Schemas[1])[k][2])
                   /\ ItemsDegradedOrDropped(OperationOf(norm_doc), PropertiesOf(Schemas[1])[k][1],
                                             PropertiesOf(Schemas[1])[k][2])

\* an operation whose array parameter declares items of another type was
\* converted: the parameter came out as an array without items
C33_ItemsDropped ==
    /\ StructuredDone /\ Len(Schemas) = 1 /\ OperationOf(norm_doc) # None
    /\ PropertyOf(Schemas[1], PyStr("tags")) # None
    /\ GetOr(PropertyOf(Schemas[1], PyStr("tags")), "type", None) = PyStr("array")
    /\ ~Has(PropertyOf(Schemas[1], PyStr("tags")), "items")
    /\ PropertyOf(Schemas[1], PyStr("limit")) # None
    /\ GetOr(PropertyOf(Schemas[1], PyStr("limit")), "type", None) = PyStr("string")

----------------------------------------------------------------------------
(* The structured converter: function names *)

\* the name of a returned schema
NameOf(schema) == GetOr(schema, "name", None)

\* a returned schema as the dict register_multiple takes
AsFunctionDict(schema) ==
    [name |-> NameOf(schema).s,
     description |-> GetOr(schema, "description", None).s,
     parameters |-> GetOr(schema, "parameters", None)]

\* the registry after registry.register_multiple(<the returned list>) on an empty registry
RegisteredList ==
    register_multiple(<< >>, [i \in 1..Len(Schemas) |-> AsFunctionDict(Schemas[i])], None)

\* the operations of a document in the order the converter walks them:
\* <<path, method, operation>> for every method key of every path
RECURSIVE WalkOperations(_, _, _, _)
WalkOperations(paths, i, j, found) ==
    IF i > Len(paths) THEN found
    ELSE IF j > Len(paths[i][2].items) THEN WalkOperations(paths, i + 1, 1, found)
    ELSE WalkOperations(paths, i, j + 1,
                        IF paths[i][2].items[j][1].s \in {"get", "post", "put", "delete", "patch"}
                        THEN Append(found, <<paths[i][1].s, paths[i][2].items[j][1].s,
                                             paths[i][2].items[j][2]>>)
                        ELSE found)

OperationsOf(doc) == WalkOperations(GetOr(doc, "paths", PyDict(<< >>)).items, 1, 1, << >>)

\* the name the rule gives an operation: its operation id, else the method
\* and the path segments that do not open with a brace, joined by
\* underscores, hyphens turned into underscores, in lower case
RuleName(path, method, operation) ==
    IF Has(operation, "operationId") /\ GetOr(operation, "operationId", None) # PyStr("")
    THEN GetOr(operation, "operationId", None)
    ELSE LET segments == SelectSeq(Split(path, "/"),
                                   LAMBDA part : part # "" /\ SubSeq(part, 1, 1) # "{")
         IN  PyStr(Lower(Translate(Join(<<method>> \o segments, "_"), "-", "_")))

\* C34: the names in the list the structured converter returns are pairwise
\* distinct, each the operation id or the derived name of its operation, so
\* that register_multiple of the list leaves one binding for every operation.
C34_NamesDistinct ==
    StructuredDone =>
        /\ Len(Schemas) = Len(OperationsOf(norm_doc))
        /\ \A i \in 1..Len(Schemas) :
               NameOf(Schemas[i]) = RuleName(OperationsOf(norm_doc)[i][1],
                                             OperationsOf(norm_doc)[i][2],
                                             OperationsOf(norm_doc)[i][3])
        /\ \A i, j \in 1..Len(Schemas) : i # j => NameOf(Schemas[i]) # NameOf(Schemas[j])
        /\ Len(RegisteredList) = Len(Schemas)

\* the part of C34 the code keeps: one schema per operation, in document
\* order, named by the rule; the registry built from the list has one
\* binding per distinct name, the one of the last operation of that name
C34_NamedByRule ==
    StructuredDone =>
        /\ Len(Schemas) = Len(OperationsOf(norm_doc))
        /\ \A i \in 1..Len(Schemas) :
               NameOf(Schemas[i]) = RuleName(OperationsOf(norm_doc)[i][1],
                                             OperationsOf(norm_doc)[i][2],
                                             OperationsOf(norm_doc)[i][3])
        /\ Len(RegisteredList) = Cardinality({NameOf(Schemas[i]) : i \in 1..Len(Schemas)})
        /\ \A i \in 1..Len(Schemas) :
               (\A j \in (i + 1)..Len(Schemas) : NameOf(Schemas[j]) # NameOf(Schemas[i])) =>
                   get(RegisteredList, NameOf(Schemas[i]).s).description
                       = GetOr(Schemas[i], "description", None).s

\* two operations of one document came out under one name, and the
\* registry built from the list holds one binding for the two
C34_NamesCollide ==
    /\ StructuredDone /\ Len(Schemas) = 2
    /\ NameOf(Schemas[1]) = PyStr("get_pet_store")
    /\ NameOf(Schemas[2]) = PyStr("get_pet_store")
    /\ Len(RegisteredList) = 1
    /\ get(RegisteredList, "get_pet_store").description = "GET /pet_store"

----------------------------------------------------------------------------
(* ConversationManager: conversations of different ids *)

\* the conversation stored under id in store convs over objects: None when there is none
StoredIn(convs, objects, id) ==
    IF IndexOf(convs, id) = 0 THEN None ELSE objects[DictGet(convs, id).ref]

\* the ids whose stored conversation the step changes while the store keeps its entries
ChangedIds ==
    {id \in ConversationIds : StoredIn(conversations', heap', id) # StoredIn(conversations, heap, id)}

\* the step is an append or a clear on a conversation object
OnConversation == conversations' = conversations /\ heap' # heap

\* the step appends one message to object r and keeps its system text
AppendedTo(r) ==
    /\ heap'[r].system_prompt = heap[r].system_prompt
    /\ Len(heap'[r].messages) = Len(heap[r].messages) + 1
    /\ SubSeq(heap'[r].messages, 1, Len(heap[r].messages)) = heap[r].messages

\* the step removes every message of object r and keeps its system text
ClearedOf(r) ==
    /\ heap'[r].system_prompt = heap[r].system_prompt
    /\ heap'[r].messages = << >>

\* C35: an append or a clear on the conversation stored under one id leaves
\* the system text and the messages of the conversation stored under every
\* other id as they were; Conversation.clear leaves its own conversation
\* without messages and with its system text.
C35_ConversationsIndependent ==
    /\ [][OnConversation =>
              /\ Cardinality(ChangedIds) <= 1
              /\ Len(heap') = Len(heap)
              /\ Cardinality({r \in 1..Len(heap) : heap'[r] # heap[r]}) = 1]_vars
    /\ [][\A r \in 1..Len(heap) :
              /\ ClearThrough(r) => ClearedOf(r)
              /\ (\E content \in UserContents : AddThrough(r, content)) => AppendedTo(r)]_vars

\* two ids hold conversations of their own: after two appends and a clear,
\* one holds the later message and the other none, each with its system text
C35_Witness ==
    /\ Len(heap) = 2 /\ clock = 2
    /\ StoredIn(conversations, heap, "a") # None
    /\ StoredIn(conversations, heap, "b") # None
    /\ DictGet(conversations, "a") # DictGet(conversations, "b")
    /\ Len(StoredIn(conversations, heap, "a").messages) = 1
    /\ StoredIn(conversations, heap, "a").messages[1].timestamp = Timestamp(1)
    /\ StoredIn(conversations, heap, "b").messages = << >>
    /\ StoredIn(conversations, heap, "a").system_prompt = DefaultSystemPrompt
    /\ StoredIn(conversations, heap, "b").system_prompt = "Answer briefly."

----------------------------------------------------------------------------
(* ConversationManager: creating under an id that is in the store *)

\* the ids get_all_conversation_ids lists for store convs
ListedIds(convs) == get_all_conversation_ids(convs, << >>).value.elems

\* the number of times id stands in the list
TimesListed(convs, id) ==
    Cardinality({i \in 1..Len(ListedIds(convs)) : ListedIds(convs)[i] = id})

\* the last call created a conversation under an id that had one
Recreated ==
    /\ LastCall("create_conversation")
    /\ IndexOf(mgr_result.found, mgr_result.id) # 0

\* C36: create_conversation under an id that is in the store puts a new
\* conversation without messages in the place of the stored one:
\* get_conversation of the id gives the new one, the earlier object and its
\* messages are as they were but no longer stored, and the id is listed
\* once, at the place it had.
C36_CreateReplaces ==
    /\ [](Recreated =>
              /\ ~mgr_result.raised
              /\ mgr_result.value # DictGet(mgr_result.found, mgr_result.id)
              /\ mgr_result.value = DictGet(conversations, mgr_result.id)
              /\ get_conversation(conversations, heap, mgr_result.id).value = mgr_result.value
              /\ StoredIn(conversations, heap, mgr_result.id).messages = << >>
              /\ TimesListed(conversations, mgr_result.id) = 1
              /\ ListedIds(conversations) = ListedIds(mgr_result.found)
              /\ \A id \in ConversationIds \ {mgr_result.id} :
                     DictGet(conversations, id) = DictGet(mgr_result.found, id))
    /\ [][\A id \in ConversationIds, system_prompt \in {None, PyStr("Answer briefly.")} :
              CreateConversation(id, system_prompt) =>
                  /\ StoredIn(conversations', heap', id) = Conversation(system_prompt)
                  /\ SubSeq(heap', 1, Len(heap)) = heap]_vars
    /\ [](\A id \in ConversationIds : TimesListed(conversations, id) <= 1)

\* a conversation that held a message was replaced: the id gives a
\* conversation without messages, the earlier object still holds its message
C36_Witness ==
    /\ Recreated
    /\ heap[DictGet(mgr_result.found, mgr_result.id).ref].messages # << >>
    /\ StoredIn(conversations, heap, mgr_result.id).messages = << >>
    /\ Len(ListedIds(conversations)) = 2
    /\ ListedIds(conversations)[1] = mgr_result.id

----------------------------------------------------------------------------
(* The execution history of the runtime *)

\* this step is an execute call, a clear call
ExecuteCalled == rt_result' # None /\ rt_result'.op = "execute"
ClearCalled == rt_result' # None /\ rt_result'.op = "clear"

\* the execute call of this step returned to its caller
Completed == ExecuteCalled /\ ~rt_result'.done.raised

\* the call result a record holds for what sdk.execute returned: the fields of
\* the FunctionCallResult, null when no call was made
CallResultOf(done) ==
    IF done.result = None THEN None
    ELSE PyDict(<< <<PyStr("function_name"), PyStr(done.result.function_name)>>,
                   <<PyStr("parameters"), done.result.parameters>>,
                   <<PyStr("result"), done.result.result>>,
                   <<PyStr("error"), done.result.error>> >>)

\* history is shorter by its last record than longer, and that record is of
\* the call with this query that gave done
GrewByRecordOf(history, longer, query, done) ==
    /\ Len(longer) = Len(history) + 1
    /\ SubSeq(longer, 1, Len(history)) = history
    /\ longer[Len(longer)].query = query
    /\ longer[Len(longer)].response = done.response
    /\ longer[Len(longer)].function_call = CallResultOf(done)

\* C37: the execution history grows by exactly one record (query, response,
\* call result or null) per completed execute call, in call order, earlier
\* records unchanged; clear_execution_history empties it; an execute call that
\* fails before completing appends no record, and no other call changes it.
C37_HistoryRecordsCompletedCalls ==
    [][/\ Completed =>
            GrewByRecordOf(execution_history, execution_history',
                           rt_result'.query, rt_result'.done)
       /\ ExecuteCalled /\ rt_result'.done.raised => execution_history' = execution_history
       /\ ClearCalled => execution_history' = << >>
       /\ ~ExecuteCalled /\ ~ClearCalled => execution_history' = execution_history]_vars

\* three calls: one whose response was no call, one in the same second that
\* dispatched get_weather, and a third that raised and found and left those
\* two records
C37_Witness ==
    /\ Len(execution_history) = 2
    /\ execution_history[1].query = "What time is it?"
    /\ execution_history[1].response = ResponsePlain
    /\ execution_history[1].function_call = None
    /\ execution_history[2].query = "What is the weather in Paris?"
    /\ execution_history[2].response = ResponseCall
    /\ execution_history[2].function_call # None
    /\ DictGet(execution_history[2].function_call.items, PyStr("result")) = PyStr("Sunny")
    /\ rt_result # None
    /\ rt_result.op = "execute"
    /\ rt_result.done.raised
    /\ rt_result.done.exc = "KeyError"
    /\ rt_result.found = execution_history
    /\ execution_history[1].timestamp = execution_history[2].timestamp

\* a clear call found two records and left none
C37_Cleared ==
    /\ rt_result # None
    /\ rt_result.op = "clear"
    /\ Len(rt_result.found) = 2
    /\ execution_history = << >>


====
